---------------------------- MODULE Spec2Model ----------------------------
(***************************************************************************)
(* podcli: clip-candidate engine (backend/cli.py) and clip pipeline        *)
(* (backend/services/clip_generator.py, video_processor.py, encoder.py).   *)
(*                                                                         *)
(* Units.  Times (segment start/end, min_dur, max_dur) are integers in     *)
(* tenths of a second; the fields a clip records after Python's round()    *)
(* (start_second, end_second, duration) are whole seconds.  Scores and     *)
(* energy values are integers in hundredths.  Texts are sequences of       *)
(* one-character strings.                                                  *)
(***************************************************************************)
EXTENDS Integers, Sequences, FiniteSets, TLC

VARIABLES
    \* ---- _suggest_clips (cli.py) ----
    segments,       \* input: sequence of [start, end, text]
    energy_scores,  \* input: sequence of energies (hundredths); <<>> is None/[]
    top_n,          \* input
    min_dur,        \* input (tenths of a second)
    max_dur,        \* input (tenths of a second)
    clips,          \* the candidate pool
    selected,       \* the accepted clips
    spc,            \* position in _suggest_clips
    wi,             \* index into win_sizes of the outer loop
    si,             \* start index i of the inner loop (0-based, as in the code)
    ci,             \* index of the clip considered by the selection loop
    \* ---- generate_clip (clip_generator.py); times in hundredths of a second ----
    video_exists,     \* input: os.path.exists(video_path)
    start_second,     \* input
    end_second,       \* input
    caption_style,    \* input
    transcript_words, \* input: sequence of [word, start, end]
    clean_fillers,    \* input
    outro,            \* input: "none", "missing" (path given, no file), "present"
    output_dir,       \* input: is output_dir given?
    has_callback,     \* input: is progress_callback given?
    best_enc,         \* the encoder get_video_encode_flags() selects (cached)
    gpc,              \* position in generate_clip
    stage_log,        \* the stages that have been run, in order
    attempts,         \* the external processes run by the most recent stage
    nprocs,           \* number of external processes run so far
    progress,         \* the percentages passed to progress_callback
    artifact,         \* the file the next stage reads: "none", "ok", "missing", "small"
    work_dir,         \* the scratch directory: "none", "exists", "deleted"
    output_file,      \* the file at final_path: "none", "ok", "small"
    error,            \* the exception generate_clip raised, or "none"
    \* ---- the clip loops: handle_batch_clips (main.py), cmd_process (cli.py) ----
    handler,          \* "batch_clips" or "process"; "none" when no loop runs
    bclips,           \* input: the requested clips, a sequence of [start_second, end_second]
    faulty,           \* environment: indices of the clips whose external runs may go wrong
    bi,               \* the loop index i (0-based, as in the code)
    results,          \* the result list
    events,           \* the percentages written to stderr before the current clip's call
    bpc,              \* position in the loop
    \* ---- the caption step of generate_clip and render_captions (caption_renderer.py) ----
    cap_words,        \* input: the transcript words, [word, start, end, idx]
    cap_offset,       \* input: start_second of the clip, the time_offset of render_captions
    cap_end,          \* input: end_second of the clip
    cap_clean,        \* input: clean_fillers
    cap_style,        \* input: caption_style
    cap_direct,       \* input: render_captions is called with cap_words as they are
    clip_words,       \* the words given to render_captions
    sanitized,        \* the words after _sanitize_words, given to the style renderer
    ass_doc,          \* the subtitle document written: [header, events], or "none"
    cpc,              \* position in the caption step
    \* ---- crop_to_vertical (video_processor.py) ----
    src_width,        \* input: width of the source
    src_height,       \* input: height of the source
    strategy,         \* input: "center" or "face"
    detection,        \* environment: what face detection does
    vf,               \* the filter crop_to_vertical builds, or "none"
    kpc,              \* position in crop_to_vertical
    \* ---- get_energy_profile (audio_analyzer.py); times in hundredths of a second ----
    en_env,           \* environment: what the three external runs do
    en_segments,      \* input: the segments, [start, end]
    en_data,          \* energy_data: the samples, [time, rms_db]
    en_scores,        \* segment_scores, in hundredths
    en_peaks,         \* peak_times
    en_error,         \* the exception get_energy_profile raised, or "none"
    epc,              \* position in get_energy_profile
    \* ---- transcribe_file (transcription.py) ----
    tr_env,           \* environment: what the diarization steps do
    tr_enabled,       \* input: enable_diarization
    tr_segments,      \* the segments of the transcript, [start, end, speaker]
    tr_words,         \* the words of the transcript, [start, end, speaker]
    tr_speakers,      \* speaker_segments
    tr_warning,       \* diarization_warning, or "none"
    tpc,              \* position in transcribe_file
    \* ---- main (main.py) ----
    raw,              \* input: the request line read from stdin
    handler_env,      \* environment: what the service called by the handler does
    stdout,           \* the result messages written to stdout
    stderr,           \* the number of progress events written to stderr
    exit_code,        \* the exit status of the process, or "none"
    mpc               \* position in main

suggestVars == <<segments, energy_scores, top_n, min_dur, max_dur,
                 clips, selected, spc, wi, si, ci>>

clipInputs == <<video_exists, start_second, end_second, caption_style,
                transcript_words, clean_fillers, outro, output_dir,
                has_callback, best_enc>>

clipVars == <<clipInputs, gpc, stage_log, attempts, nprocs, progress, artifact,
              work_dir, output_file, error>>

batchVars == <<handler, bclips, faulty, bi, results, events, bpc>>

captionVars == <<cap_words, cap_offset, cap_end, cap_clean, cap_style, cap_direct,
                 clip_words, sanitized, ass_doc, cpc>>

cropVars == <<src_width, src_height, strategy, detection, vf, kpc>>

energyVars == <<en_env, en_segments, en_data, en_scores, en_peaks, en_error, epc>>

transcribeVars == <<tr_env, tr_enabled, tr_segments, tr_words, tr_speakers, tr_warning, tpc>>

mainVars == <<raw, handler_env, stdout, stderr, exit_code, mpc>>

\* what the steps of each part leave alone
notSuggest == <<clipVars, batchVars, captionVars, cropVars, energyVars, transcribeVars, mainVars>>
notClip == <<suggestVars, batchVars, captionVars, cropVars, energyVars, transcribeVars, mainVars>>
notLoop == <<suggestVars, captionVars, cropVars, energyVars, transcribeVars, mainVars>>
notCaption == <<suggestVars, clipVars, batchVars, cropVars, energyVars, transcribeVars, mainVars>>
notCrop == <<suggestVars, clipVars, batchVars, captionVars, energyVars, transcribeVars, mainVars>>
notEnergy == <<suggestVars, clipVars, batchVars, captionVars, cropVars, transcribeVars, mainVars>>
notTranscribe == <<suggestVars, clipVars, batchVars, captionVars, cropVars, energyVars, mainVars>>
notMain == <<suggestVars, clipVars, batchVars, captionVars, cropVars, energyVars, transcribeVars>>

vars == <<suggestVars, clipVars, batchVars, captionVars, cropVars, energyVars,
          transcribeVars, mainVars>>

-----------------------------------------------------------------------------
(* Bounds of the model *)

MaxSegs == 13
MaxTopN == 3

-----------------------------------------------------------------------------
(* Generic helpers standing for Python built-ins *)

Min2(a, b) == IF a <= b THEN a ELSE b
Max2(a, b) == IF a >= b THEN a ELSE b

\* Python round(): nearest integer of num/den, ties to the even integer.
RoundHalfEven(num, den) ==
    LET q == num \div den
        r == num % den
    IN  IF 2 * r < den THEN q
        ELSE IF 2 * r > den THEN q + 1
        ELSE IF q % 2 = 0 THEN q ELSE q + 1

\* round(t) of a time given in tenths of a second, in whole seconds.
RoundSec(t) == RoundHalfEven(t, 10)

RECURSIVE SumSeq(_)
SumSeq(s) == IF s = <<>> THEN 0 ELSE Head(s) + SumSeq(Tail(s))

RECURSIVE MaxSeq(_)
MaxSeq(s) == IF Len(s) = 1 THEN s[1] ELSE Max2(Head(s), MaxSeq(Tail(s)))

\* s[:n]
Take(s, n) == SubSeq(s, 1, Min2(n, Len(s)))

UpperChars == <<"A", "B", "C", "D", "E", "F", "G", "H", "I", "J", "K", "L", "M",
                "N", "O", "P", "Q", "R", "S", "T", "U", "V", "W", "X", "Y", "Z">>
LowerChars == <<"a", "b", "c", "d", "e", "f", "g", "h", "i", "j", "k", "l", "m",
                "n", "o", "p", "q", "r", "s", "t", "u", "v", "w", "x", "y", "z">>
Whitespace == {" ", "\t", "\n"}

\* str.isupper() of one character
IsUpper(c) == \E k \in 1..Len(UpperChars) : UpperChars[k] = c

\* str.lower()
LowerChar(c) ==
    IF IsUpper(c)
    THEN LowerChars[CHOOSE k \in 1..Len(UpperChars) : UpperChars[k] = c]
    ELSE c
Lower(text) == [k \in 1..Len(text) |-> LowerChar(text[k])]

\* str.strip()
Strip(text) ==
    LET keep == {k \in 1..Len(text) : text[k] \notin Whitespace}
    IN  IF keep = {} THEN <<>>
        ELSE SubSeq(text,
                    CHOOSE k \in keep : \A j \in keep : k <= j,
                    CHOOSE k \in keep : \A j \in keep : k >= j)

\* kw in text (substring)
Contains(text, kw) ==
    \E k \in 1..(Len(text) - Len(kw) + 1) :
        /\ text[k] = kw[1]
        /\ SubSeq(text, k, k + Len(kw) - 1) = kw

\* " ".join(texts)
RECURSIVE Join(_)
Join(texts) ==
    IF texts = <<>> THEN <<>>
    ELSE IF Len(texts) = 1 THEN texts[1]
    ELSE texts[1] \o <<" ">> \o Join(Tail(texts))

-----------------------------------------------------------------------------
(* _suggest_clips: constants *)

KEYWORDS ==
  << <<"s", "e", "c", "r", "e", "t">>,
     <<"m", "i", "s", "t", "a", "k", "e">>,
     <<"i", "m", "p", "o", "r", "t", "a", "n", "t">>,
     <<"n", "e", "v", "e", "r">>,
     <<"a", "l", "w", "a", "y", "s">>,
     <<"b", "e", "s", "t">>,
     <<"h", "o", "w", " ", "t", "o">>,
     <<"w", "h", "y">>,
     <<"s", "t", "o", "r", "y">>,
     <<"a", "m", "a", "z", "i", "n", "g">>,
     <<"c", "h", "a", "n", "g", "e", "d">>,
     <<"m", "o", "n", "e", "y">>,
     <<"l", "e", "a", "r", "n">>,
     <<"t", "r", "u", "t", "h">>,
     <<"a", "c", "t", "u", "a", "l", "l", "y">>,
     <<"p", "r", "o", "b", "l", "e", "m">>,
     <<"s", "o", "l", "u", "t", "i", "o", "n">>,
     <<"b", "e", "l", "i", "e", "v", "e">>,
     <<"c", "r", "a", "z", "y">>,
     <<"n", "u", "m", "b", "e", "r", " ", "o", "n", "e">>,
     <<"b", "i", "g", "g", "e", "s", "t">>,
     <<"f", "i", "r", "s", "t", " ", "t", "h", "i", "n", "g">>,
     <<"l", "i", "s", "t", "e", "n">>,
     <<"h", "e", "r", "e", "'", "s", " ", "t", "h", "e", " ", "t", "h", "i", "n", "g">>,
     <<"l", "e", "t", " ", "m", "e", " ", "t", "e", "l", "l", " ", "y", "o", "u">>,
     <<"t", "h", "e", " ", "k", "e", "y">>,
     <<"g", "a", "m", "e", " ", "c", "h", "a", "n", "g", "e", "r">>,
     <<"n", "o", "b", "o", "d", "y", " ", "t", "a", "l", "k", "s", " ", "a", "b", "o", "u", "t">>,
     <<"m", "o", "s", "t", " ", "p", "e", "o", "p", "l", "e">>,
     <<"d", "o", "n", "'", "t", " ", "r", "e", "a", "l", "i", "z", "e">> >>

win_sizes == <<6, 8, 10, 12>>

\* step = max(1, int(win_size * 0.6))
WinStep(win_size) == Max2(1, (win_size * 6) \div 10)

\* win = segments[i : i + win_size]
Window(i, win_size) == SubSeq(segments, i + 1, Min2(i + win_size, Len(segments)))

\* text = " ".join(s.get("text", "") for s in win)
WinText(win) == Join([k \in 1..Len(win) |-> win[k].text])

\* dur = end - start  (tenths of a second, not rounded)
WinDur(win) == win[Len(win)].end - win[1].start

\* the negation of: dur < min_dur or dur > max_dur
InWindowBound(dur) == ~(dur < min_dur \/ dur > max_dur)

\* the number of KEYWORDS present in text_lower (+2 each, presence only)
KeywordHits(text_lower) ==
    Cardinality({k \in 1..Len(KEYWORDS) : Contains(text_lower, KEYWORDS[k])})

\* the text heuristics and the sentence-start bonus (an integer)
TextScore(win) ==
    LET text == WinText(win)
        first_text == Strip(win[1].text)
    IN  (IF Contains(text, <<"?">>) THEN 3 ELSE 0)
      + (IF Contains(text, <<"!">>) THEN 2 ELSE 0)
      + (IF Len(text) > 200 THEN 1 ELSE 0)
      + 2 * KeywordHits(Lower(text))
      + (IF first_text # <<>> /\ IsUpper(first_text[1]) THEN 1 ELSE 0)

\* seg_energies = energy_scores[i : i + win_size]
SegEnergies(i, win_size) ==
    SubSeq(energy_scores, i + 1, Min2(i + win_size, Len(energy_scores)))

\* The score as the exact fraction ScoreNum / ScoreDen, in hundredths:
\*   score + avg_energy * 0.5 + max_energy * 0.3
\* with avg = sum / len, so the common denominator is 10 * len.
ScoreDen(i, win_size) ==
    IF energy_scores # <<>> /\ SegEnergies(i, win_size) # <<>>
    THEN 10 * Len(SegEnergies(i, win_size))
    ELSE 1

ScoreNum(i, win_size) ==
    LET e == SegEnergies(i, win_size)
        base == 100 * TextScore(Window(i, win_size))
    IN  IF energy_scores # <<>> /\ e # <<>>
        THEN base * 10 * Len(e) + 5 * SumSeq(e) + 3 * Len(e) * MaxSeq(e)
        ELSE base

\* if score >= 3
ScoreAccepted(num, den) == num >= 300 * den

\* the dictionary appended to clips
MakeClip(i, win_size) ==
    LET win == Window(i, win_size)
        text == WinText(win)
    IN  [ title        |-> Strip(Take(text, 55)) \o <<".", ".", ".">>,
          start_second |-> RoundSec(win[1].start),
          end_second   |-> RoundSec(win[Len(win)].end),
          duration     |-> RoundSec(WinDur(win)),
          score        |-> RoundHalfEven(ScoreNum(i, win_size), ScoreDen(i, win_size)),
          preview      |-> Strip(Take(text, 100)) ]

\* for i in range(0, len(segments) - win_size, step): is i still in the range?
InRange(i, win_size) == i < Len(segments) - win_size

\* clips.sort(key=score, reverse=True): stable, equal scores keep their order
RECURSIVE SortByScoreDesc(_)
SortByScoreDesc(s) ==
    IF s = <<>> THEN <<>>
    ELSE LET rest == SortByScoreDesc(SubSeq(s, 1, Len(s) - 1))
             x == s[Len(s)]
             p == Cardinality({k \in 1..Len(rest) : rest[k].score >= x.score})
         IN  SubSeq(rest, 1, p) \o <<x>> \o SubSeq(rest, p + 1, Len(rest))

\* selected.sort(key=start_second): stable
RECURSIVE SortByStart(_)
SortByStart(s) ==
    IF s = <<>> THEN <<>>
    ELSE LET rest == SortByStart(SubSeq(s, 1, Len(s) - 1))
             x == s[Len(s)]
             p == Cardinality({k \in 1..Len(rest) :
                                 rest[k].start_second <= x.start_second})
         IN  SubSeq(rest, 1, p) \o <<x>> \o SubSeq(rest, p + 1, Len(rest))

\* overlap_amt = min(clip.end, sel.end) - max(clip.start, sel.start)
OverlapAmt(clip, sel) ==
    Min2(clip.end_second, sel.end_second) - Max2(clip.start_second, sel.start_second)

\* mutant: the overlap is measured against the accepted clip's duration
Suppresses_SelDuration(sel, clip) ==
    /\ clip.start_second < sel.end_second
    /\ clip.end_second > sel.start_second
    /\ 2 * (Min2(clip.end_second, sel.end_second)
            - Max2(clip.start_second, sel.start_second)) > sel.duration

\* the body of the inner selection loop: does sel suppress clip?
\* (overlap_amt > clip["duration"] * 0.5, on whole seconds)
Suppresses(sel, clip) ==
    /\ clip.start_second < sel.end_second
    /\ clip.end_second > sel.start_second
    /\ 2 * OverlapAmt(clip, sel) > clip.duration

\* overlap flag after the inner loop over selected
Overlapping(clip, sel_list) ==
    \E k \in 1..Len(sel_list) : Suppresses(sel_list[k], clip)

\* if len(selected) >= top_n: break
StopSelecting(sel_list) == Len(sel_list) >= top_n

-----------------------------------------------------------------------------
(* _suggest_clips: inputs *)

TextSecret == <<"L", "e", "t", " ", "m", "e", " ", "t", "e", "l", "l", " ", "y",
                "o", "u", " ", "t", "h", "e", " ", "s", "e", "c", "r", "e", "t">>
TextChanged == <<"t", "h", "a", "t", " ", "c", "h", "a", "n", "g", "e", "d", " ",
                 "e", "v", "e", "r", "y", "t", "h", "i", "n", "g">>
TextPlain == <<"a", "n", "d", " ", "t", "h", "e", "n", " ", "w", "e", " ", "w",
               "e", "n", "t", " ", "o", "n">>
TextQuestion == <<"I", "s", " ", "i", "t", " ", "t", "r", "u", "e", "?">>
TextShout == <<" ", "w", "o", "w", "!">>

\* the k-th element of a pattern repeated cyclically
Cyc(pat, k) == pat[((k - 1) % Len(pat)) + 1]

TextPatterns == { <<TextSecret, TextChanged>>,
                  <<TextPlain>>,
                  <<TextPlain, TextQuestion, TextShout>> }

\* segment lengths in tenths of a second
DurPatterns == { <<50, 100>>, <<35, 33>>, <<34, 17>> }

\* transcript start in tenths of a second
StartOffsets == {0, 5}

\* (min_dur, max_dur) in tenths of a second
DurBounds == { <<50, 200>>, <<200, 900>>, <<203, 900>> }

RECURSIVE StartOf(_, _, _)
StartOf(durs, t0, k) == IF k = 1 THEN t0 ELSE StartOf(durs, t0, k - 1) + Cyc(durs, k - 1)

MakeSegments(n, durs, t0, texts) ==
    [k \in 1..n |-> [ start |-> StartOf(durs, t0, k),
                      end   |-> StartOf(durs, t0, k) + Cyc(durs, k),
                      text  |-> Cyc(texts, k) ]]

\* energy_scores: None, one score per segment, or a list shorter than the transcript
EnergyInputs(n) == { <<>>,
                     [k \in 1..n |-> Cyc(<<0, 250, 833>>, k)],
                     <<1000, 40, 0, 615>> }

\* get_energy_profile is not running
EnergyIdle ==
    /\ en_env = "none" /\ en_segments = <<>> /\ en_data = <<>> /\ en_scores = <<>>
    /\ en_peaks = <<>> /\ en_error = "none" /\ epc = "idle"

\* transcribe_file is not running
TranscribeIdle ==
    /\ tr_env = "none" /\ tr_enabled = FALSE /\ tr_segments = <<>> /\ tr_words = <<>>
    /\ tr_speakers = <<>> /\ tr_warning = "none" /\ tpc = "idle"

\* main is not running
MainIdle ==
    /\ raw = "none" /\ handler_env = "none" /\ stdout = <<>> /\ stderr = 0
    /\ exit_code = "none" /\ mpc = "idle"

\* the caption step is not running
CaptionIdle ==
    /\ cap_words = <<>> /\ cap_offset = 0 /\ cap_end = 0 /\ cap_clean = TRUE
    /\ cap_style = "hormozi" /\ cap_direct = FALSE /\ clip_words = <<>>
    /\ sanitized = <<>> /\ ass_doc = "none" /\ cpc = "idle"

\* crop_to_vertical is not running
CropIdle ==
    /\ src_width = 0 /\ src_height = 0 /\ strategy = "center"
    /\ detection = "none" /\ vf = "none" /\ kpc = "idle"

\* no clip loop is running
BatchIdle ==
    /\ handler = "none" /\ bclips = <<>> /\ faulty = {} /\ bi = 0
    /\ results = <<>> /\ events = <<>> /\ bpc = "idle"

\* generate_clip is not running
ClipIdle ==
    /\ video_exists = FALSE /\ start_second = 0 /\ end_second = 0
    /\ caption_style = "hormozi" /\ transcript_words = <<>>
    /\ clean_fillers = TRUE /\ outro = "none" /\ output_dir = FALSE
    /\ has_callback = FALSE /\ best_enc = "libx264"
    /\ gpc = "idle" /\ stage_log = <<>> /\ attempts = <<>> /\ nprocs = 0
    /\ progress = <<>> /\ artifact = "none" /\ work_dir = "none"
    /\ output_file = "none" /\ error = "none"

SuggestInit ==
    /\ \E n \in 2..MaxSegs, durs \in DurPatterns, t0 \in StartOffsets,
          texts \in TextPatterns :
            segments = MakeSegments(n, durs, t0, texts)
    /\ energy_scores \in EnergyInputs(Len(segments))
    /\ top_n \in 0..MaxTopN
    /\ \E b \in DurBounds : min_dur = b[1] /\ max_dur = b[2]
    /\ clips = <<>>
    /\ selected = <<>>
    /\ spc = "scan"
    /\ wi = 1
    /\ si = 0
    /\ ci = 1
    /\ ClipIdle
    /\ BatchIdle
    /\ CaptionIdle
    /\ CropIdle
    /\ EnergyIdle /\ TranscribeIdle /\ MainIdle

-----------------------------------------------------------------------------
(* _suggest_clips: steps *)

\* one iteration of the inner window loop (cli.py 207-252)
ScanWindow ==
    /\ spc = "scan"
    /\ InRange(si, win_sizes[wi])
    /\ LET w == win_sizes[wi]
           num == ScoreNum(si, w)
           den == ScoreDen(si, w)
       IN  clips' = IF InWindowBound(WinDur(Window(si, w))) /\ ScoreAccepted(num, den)
                    THEN Append(clips, MakeClip(si, w))
                    ELSE clips
    /\ si' = si + WinStep(win_sizes[wi])
    /\ UNCHANGED <<segments, energy_scores, top_n, min_dur, max_dur, selected,
                   spc, wi, ci>>
    /\ UNCHANGED notSuggest

\* the inner range is exhausted: next window size, or on to the selection
NextWinSize ==
    /\ spc = "scan"
    /\ ~InRange(si, win_sizes[wi])
    /\ IF wi < Len(win_sizes)
       THEN wi' = wi + 1 /\ si' = 0 /\ spc' = spc
       ELSE wi' = wi /\ si' = si /\ spc' = "sort"
    /\ UNCHANGED <<segments, energy_scores, top_n, min_dur, max_dur, clips,
                   selected, ci>>
    /\ UNCHANGED notSuggest

\* clips.sort(key=lambda c: c["score"], reverse=True)  (cli.py 255)
SortPool ==
    /\ spc = "sort"
    /\ clips' = SortByScoreDesc(clips)
    /\ ci' = 1
    /\ spc' = IF clips = <<>> THEN "finish" ELSE "select"
    /\ UNCHANGED <<segments, energy_scores, top_n, min_dur, max_dur, selected,
                   wi, si>>
    /\ UNCHANGED notSuggest

\* one iteration of the selection loop (cli.py 257-271)
ConsiderClip ==
    /\ spc = "select"
    /\ LET clip == clips[ci]
           sel2 == IF Overlapping(clip, selected) THEN selected
                   ELSE Append(selected, clip)
       IN  /\ selected' = sel2
           /\ IF StopSelecting(sel2) \/ ci = Len(clips)
              THEN spc' = "finish" /\ ci' = ci
              ELSE spc' = spc /\ ci' = ci + 1
    /\ UNCHANGED <<segments, energy_scores, top_n, min_dur, max_dur, clips,
                   wi, si>>
    /\ UNCHANGED notSuggest

\* selected.sort(key=lambda c: c["start_second"]); return selected  (cli.py 274-275)
ReturnSelected ==
    /\ spc = "finish"
    /\ selected' = SortByStart(selected)
    /\ spc' = "done"
    /\ UNCHANGED <<segments, energy_scores, top_n, min_dur, max_dur, clips,
                   wi, si, ci>>
    /\ UNCHANGED notSuggest

SuggestNext == ScanWindow \/ NextWinSize \/ SortPool \/ ConsiderClip \/ ReturnSelected

SpecSuggest == SuggestInit /\ [][SuggestNext]_vars

-----------------------------------------------------------------------------
(* _suggest_clips: properties *)

\* the overlap of two recorded intervals, in whole seconds
PairOverlap(a, b) ==
    Min2(a.end_second, b.end_second) - Max2(a.start_second, b.start_second)

\* C1: every candidate of the pool has a recorded duration d (whole seconds)
\* with min_dur <= d <= max_dur.
C1_RecordedDurationInWindow ==
    \A k \in 1..Len(clips) :
        /\ min_dur <= 10 * clips[k].duration
        /\ 10 * clips[k].duration <= max_dur

\* C2: while the selection runs, every accepted clip overlaps each clip
\* accepted before it by at most half of its own recorded duration; in the
\* returned list every two clips overlap by at most half of the recorded
\* duration of one of them (the one considered later).
C2_NoMajorOverlap ==
    /\ spc \in {"select", "finish"} =>
         \A x, y \in 1..Len(selected) :
            x < y => 2 * PairOverlap(selected[y], selected[x]) <= selected[y].duration
    /\ spc = "done" =>
         \A x, y \in 1..Len(selected) :
            x # y => \/ 2 * PairOverlap(selected[x], selected[y]) <= selected[x].duration
                     \/ 2 * PairOverlap(selected[x], selected[y]) <= selected[y].duration

\* a returned list of three clips, two of which overlap, with a candidate of
\* the pool suppressed by an accepted clip
C2_Witness ==
    /\ spc = "done"
    /\ Len(selected) = 3
    /\ \E x, y \in 1..Len(selected) : x # y /\ PairOverlap(selected[x], selected[y]) > 0
    /\ \E k \in 1..Len(clips) :
          /\ \A x \in 1..Len(selected) : selected[x] # clips[k]
          /\ \E x \in 1..Len(selected) :
                2 * PairOverlap(clips[k], selected[x]) > clips[k].duration

\* C3: the returned list never has more than top_n clips, for every top_n
\* (0 included).
C3_AtMostTopN == spc = "done" => Len(selected) <= top_n

\* C4: the two-segment transcript of the scenario, with min_dur = 5 s and
\* max_dur = 20 s, yields a candidate whose text contains "secret" and
\* "changed" and whose score is at least 3.
C4_Scenario ==
    /\ segments = << [start |-> 0, end |-> 50, text |-> TextSecret],
                     [start |-> 50, end |-> 150, text |-> TextChanged] >>
    /\ min_dur = 50
    /\ max_dur = 200

C4_ScenarioYieldsCandidate ==
    (C4_Scenario /\ spc # "scan") =>
        \E k \in 1..Len(clips) :
            /\ Contains(clips[k].preview, KEYWORDS[1])
            /\ Contains(clips[k].preview, KEYWORDS[11])
            /\ clips[k].score >= 300

-----------------------------------------------------------------------------
(* clip_generator.py: _clean_transcript_words *)

MAX_GAP == 150
COMPRESSED_GAP == 30

_FILLER_WORDS ==
    { <<"u", "m">>, <<"u", "h">>, <<"u", "h", "h">>, <<"u", "h", "m">>,
      <<"u", "m", "m">>, <<"h", "m", "m">>, <<"h", "m">>, <<"m", "h", "m">>,
      <<"a", "h">>, <<"e", "r">>, <<"e", "r", "m">>, <<"e", "h">> }

\* the characters of .strip(".,!?;:-<en dash><em dash>'\"")
PunctChars == {".", ",", "!", "?", ";", ":", "-", "'", "\""}

\* str.strip(chars)
StripChars(text, chars) ==
    LET keep == {k \in 1..Len(text) : text[k] \notin chars}
    IN  IF keep = {} THEN <<>>
        ELSE SubSeq(text,
                    CHOOSE k \in keep : \A j \in keep : k <= j,
                    CHOOSE k \in keep : \A j \in keep : k >= j)

\* bare = text.lower().strip(punctuation), text = w["word"].strip()
BareWord(w) == StripChars(Lower(Strip(w.word)), PunctChars)

IsFiller(w) == BareWord(w) \in _FILLER_WORDS

\* Step 1: remove filler words
RemoveFillers(words) == SelectSeq(words, LAMBDA w : ~IsFiller(w))

\* mutant: a large gap is shortened by COMPRESSED_GAP instead of down to it
RECURSIVE TimeShift_Fixed(_, _)
TimeShift_Fixed(cleaned, k) ==
    IF k = 1 THEN 0
    ELSE LET gap == cleaned[k].start - cleaned[k - 1].end
         IN  TimeShift_Fixed(cleaned, k - 1)
               + (IF gap > MAX_GAP THEN COMPRESSED_GAP ELSE 0)

\* time_shift after word k of cleaned (k >= 1)
RECURSIVE TimeShift(_, _)
TimeShift(cleaned, k) ==
    IF k = 1 THEN 0
    ELSE LET gap == cleaned[k].start - cleaned[k - 1].end
         IN  TimeShift(cleaned, k - 1)
               + (IF gap > MAX_GAP THEN gap - COMPRESSED_GAP ELSE 0)

\* Step 2: compress large gaps by shifting timestamps forward
CompressGaps(cleaned) ==
    [k \in 1..Len(cleaned) |->
        IF k = 1 THEN cleaned[1]
        ELSE [cleaned[k] EXCEPT !.start = @ - TimeShift(cleaned, k),
                                !.end   = @ - TimeShift(cleaned, k)]]

_clean_transcript_words(words) == CompressGaps(RemoveFillers(words))

-----------------------------------------------------------------------------
(* video_processor.py: the external processes of each stage *)

CPU_ENC == "libx264"

\* What one external run can do: exit 0 with a good output ("ok"), exit 0
\* with no output file or with an undersized one, or exit nonzero.
Outcomes == {"ok", "zero_missing", "zero_small", "fail"}

rc0(o) == o \in {"ok", "zero_missing", "zero_small"}

ArtifactOf(o) ==
    CASE o = "ok" -> "ok"
      [] o = "zero_small" -> "small"
      [] OTHER -> "missing"

\* a run that reads a missing input file can only exit nonzero
RunOutcomes(input) == IF input = "missing" THEN {"fail"} ELSE Outcomes

Run(step, enc, o) == [step |-> step, enc |-> enc, outcome |-> o]

\* A trace is what a stage function did: its runs, whether it raised, and
\* the state of its output file.
Trace(runs, raised, art) == [runs |-> runs, raised |-> raised, art |-> art]

\* the states a file can be in
Artifacts == {"none", "ok", "missing", "small"}

\* t1 followed, unless it raised, by one of the traces F[t1.art]
Then(T1, F) ==
    UNION { IF t1.raised THEN {t1}
            ELSE { Trace(t1.runs \o t2.runs, t2.raised, t2.art) : t2 \in F[t1.art] }
          : t1 \in T1 }

\* get_dimensions: ffprobe; raises when it fails or shows no video stream
ProbeTraces(input) ==
    { Trace(<<Run("probe", "none", o)>>, o = "fail", input)
      : o \in (IF input = "missing" THEN {"fail"} ELSE {"ok", "fail"}) }

\* mutant: no retry with libx264
FallbackTraces_NoRetry(step, enc, input) ==
    { Trace(<<Run(step, enc, o)>>, ~rc0(o), ArtifactOf(o)) : o \in RunOutcomes(input) }

\* _run_ffmpeg_with_fallback
FallbackTraces(step, enc, input) ==
    \* result.returncode == 0: return output_path
    { Trace(<<Run(step, enc, o)>>, FALSE, ArtifactOf(o))
      : o \in {x \in RunOutcomes(input) : rc0(x)} }
    \cup
    (IF enc # CPU_ENC
     \* retry with libx264; raise when it fails too
     THEN { Trace(<<Run(step, enc, "fail"), Run(step, CPU_ENC, o2)>>,
                  ~rc0(o2), ArtifactOf(o2))
            : o2 \in RunOutcomes(input) }
     \* already libx264: raise
     ELSE { Trace(<<Run(step, enc, "fail")>>, TRUE, "missing") })

\* cut_segment: one stream-copy run
CutTraces ==
    { Trace(<<Run("cut", "copy", o)>>, ~rc0(o), ArtifactOf(o)) : o \in Outcomes }

\* crop_to_vertical: get_dimensions, then the crop with fallback
CropTraces(enc, input) ==
    Then(ProbeTraces(input), [a \in Artifacts |-> FallbackTraces("crop", enc, a)])

\* _create_gradient_png: one run without an input file
GradientTraces ==
    { Trace(<<Run("gradient", "none", o)>>, o = "fail", ArtifactOf(o))
      : o \in {"ok", "zero_missing", "fail"} }

\* the encode of burn_captions: first run, libx264 run when the first fails
\* and the encoder is not libx264 already, raise when the last run failed
BurnEncodeTraces(enc, input) ==
    { Trace(<<Run("burn", enc, o)>>, FALSE, ArtifactOf(o))
      : o \in {x \in RunOutcomes(input) : rc0(x)} }
    \cup
    (IF enc # CPU_ENC
     THEN { Trace(<<Run("burn", enc, "fail"), Run("burn", CPU_ENC, o2)>>,
                  ~rc0(o2), ArtifactOf(o2))
            : o2 \in RunOutcomes(input) }
     ELSE { Trace(<<Run("burn", enc, "fail")>>, TRUE, "missing") })

\* burn_captions
BurnTraces(enc, input, gradient_overlay) ==
    LET Gradient == [a \in Artifacts |-> GradientTraces]
        \* the encode reads the cropped video and, if used, the gradient image
        EncodeWith == [g \in Artifacts |->
                         BurnEncodeTraces(enc, IF g = "missing" THEN "missing" ELSE input)]
    IN  IF gradient_overlay
        THEN Then(Then(ProbeTraces(input), Gradient), EncodeWith)
        ELSE BurnEncodeTraces(enc, input)

\* normalize_audio: the measuring pass (its exit status is not looked at),
\* then one run that copies the video stream
NormalizeTraces(input) ==
    { Trace(<<Run("measure", "none", m), Run("normalize", "copy", o)>>,
            ~rc0(o), ArtifactOf(o))
      : m \in {"ok", "fail"}, o \in RunOutcomes(input) }

\* concat_outro: get_dimensions, outro_scale and main_reenc with fallback,
\* then one stream-copy run of the concat demuxer
ConcatTraces(enc, input) ==
    LET \* the concat run reads outro_scaled and main_reenc: "missing" if either is
        Scale == [a \in Artifacts |->
                    { Trace(t.runs, t.raised, IF t.art = "missing" THEN "missing" ELSE a)
                      : t \in FallbackTraces("outro_scale", enc, "ok") }]
        Reenc == [a \in Artifacts |->
                    { Trace(t.runs, t.raised, IF a = "missing" THEN "missing" ELSE t.art)
                      : t \in FallbackTraces("main_reenc", enc, input) }]
        Concat == [a \in Artifacts |->
                    { Trace(<<Run("concat", "copy", o)>>, ~rc0(o), ArtifactOf(o))
                      : o \in RunOutcomes(a) }]
    IN  Then(Then(Then(ProbeTraces(input), Scale), Reenc), Concat)

-----------------------------------------------------------------------------
(* clip_generator.py: generate_clip *)

\* duration > 180
MAX_CLIP_DURATION == 18000

\* config/caption_styles.py
STYLES == {"hormozi", "karaoke", "subtle", "branded"}
GradientOverlay(style) == style = "branded"

\* mutant: no cap on the duration
RequestError_NoCap ==
    IF ~video_exists THEN "FileNotFoundError"
    ELSE IF end_second <= start_second THEN "ValueError"
    ELSE IF caption_style \notin STYLES THEN "ValueError"
    ELSE "none"

\* the checks made before the scratch directory is created (118-129)
RequestError ==
    IF ~video_exists THEN "FileNotFoundError"
    ELSE IF end_second <= start_second THEN "ValueError"
    ELSE IF end_second - start_second > MAX_CLIP_DURATION THEN "ValueError"
    ELSE IF caption_style \notin STYLES THEN "ValueError"
    ELSE "none"

\* mutant: strict containment instead of overlap
ClipWords_Containment(words, s, e) ==
    SelectSeq(words, LAMBDA w : w.start >= s /\ w.end <= e)

\* the words that overlap the clip's time range (159-162)
ClipWords(words, s, e) ==
    SelectSeq(words, LAMBDA w : w.end > s /\ w.start < e)

\* clip_words as given to render_captions (159-166)
CaptionWords ==
    IF clean_fillers
    THEN _clean_transcript_words(ClipWords(transcript_words, start_second, end_second))
    ELSE ClipWords(transcript_words, start_second, end_second)

\* outro_path and os.path.exists(outro_path)
UseOutro == outro = "present"

\* mutant: the captions are burned before the crop
StageAfter_CaptionFirst(stage) ==
    CASE stage = "trim" -> "caption"
      [] stage = "caption" -> "crop"
      [] stage = "crop" -> "normalize"
      [] stage = "normalize" -> "concat"
      [] stage = "concat" -> "finalize"

\* the order of the statements of generate_clip (137-238)
StageAfter(stage) ==
    CASE stage = "trim" -> "crop"
      [] stage = "crop" -> "caption"
      [] stage = "caption" -> "normalize"
      [] stage = "normalize" -> "concat"
      [] stage = "concat" -> "finalize"

\* mutant: the exception of a stage is swallowed and the pipeline goes on
OnRaise_Swallow(stage) == StageAfter(stage)

\* an exception of a stage leaves generate_clip through the finally clause
OnRaise(stage) == "raised"

\* mutant: the finally clause removes nothing
FinallyWorkDir_Keep == work_dir

\* finally: if output_dir and os.path.exists(work_dir): shutil.rmtree(work_dir)
FinallyWorkDir == IF output_dir /\ work_dir = "exists" THEN "deleted" ELSE work_dir

\* if progress_callback: progress_callback(pct, ...), for each pct of pcts
Report(pcts) == IF has_callback THEN progress \o pcts ELSE progress

\* A stage function is called and does t.
StageStep(stage, name, pcts, t) ==
    /\ stage_log' = Append(stage_log, name)
    /\ attempts' = t.runs
    /\ nprocs' = nprocs + Len(t.runs)
    /\ progress' = Report(pcts)
    /\ IF t.raised
       THEN /\ gpc' = OnRaise(stage)
            /\ error' = "RuntimeError"
            /\ work_dir' = FinallyWorkDir
            /\ artifact' = artifact
       ELSE /\ gpc' = StageAfter(stage)
            /\ error' = error
            /\ work_dir' = work_dir
            /\ artifact' = t.art
    /\ UNCHANGED <<clipInputs, output_file>>

\* 118-132
Validate ==
    /\ gpc = "validate"
    /\ IF RequestError # "none"
       THEN gpc' = "raised" /\ error' = RequestError /\ work_dir' = work_dir
       ELSE gpc' = "trim" /\ error' = error /\ work_dir' = "exists"
    /\ UNCHANGED <<clipInputs, stage_log, attempts, nprocs, progress, artifact,
                   output_file>>
    /\ UNCHANGED notClip

\* Step 1 (137-142)
Trim ==
    /\ gpc = "trim"
    /\ \E t \in CutTraces : StageStep("trim", "Trim", <<10>>, t)
    /\ UNCHANGED notClip

\* Step 2 (144-149)
Crop ==
    /\ gpc = "crop"
    /\ \E t \in CropTraces(best_enc, artifact) : StageStep("crop", "Crop", <<30>>, t)
    /\ UNCHANGED notClip

\* Step 3 with words left to render (151-199)
CaptionRun ==
    /\ gpc = "caption"
    /\ transcript_words # <<>>
    /\ CaptionWords # <<>>
    /\ \E t \in BurnTraces(best_enc, artifact, GradientOverlay(caption_style)) :
          StageStep("caption", "Caption", <<50, 65>>, t)
    /\ UNCHANGED notClip

\* Step 3 without words: captioned_path = cropped_path (152-154, 200-203)
CaptionSkip ==
    /\ gpc = "caption"
    /\ transcript_words = <<>> \/ CaptionWords = <<>>
    /\ progress' = IF transcript_words # <<>> THEN Report(<<50>>) ELSE progress
    /\ gpc' = StageAfter("caption")
    /\ UNCHANGED <<clipInputs, stage_log, attempts, nprocs, artifact, work_dir,
                   output_file, error>>
    /\ UNCHANGED notClip

\* Step 4 (205-210)
Normalize ==
    /\ gpc = "normalize"
    /\ \E t \in NormalizeTraces(artifact) : StageStep("normalize", "Normalize", <<70>>, t)
    /\ UNCHANGED notClip

\* Step 5 with an outro (212-219)
ConcatRun ==
    /\ gpc = "concat"
    /\ UseOutro
    /\ \E t \in ConcatTraces(best_enc, artifact) : StageStep("concat", "Concat", <<85>>, t)
    /\ UNCHANGED notClip

\* Step 5 without: final_video_path = normalized_path (220-221)
ConcatSkip ==
    /\ gpc = "concat"
    /\ ~UseOutro
    /\ gpc' = StageAfter("concat")
    /\ UNCHANGED <<clipInputs, stage_log, attempts, nprocs, progress, artifact,
                   work_dir, output_file, error>>
    /\ UNCHANGED notClip

\* Step 6 and the return (223-257); shutil.copy2 raises when the file is missing
Finalize ==
    /\ gpc = "finalize"
    /\ stage_log' = Append(stage_log, "Finalize")
    /\ attempts' = <<>>
    /\ IF artifact = "missing"
       THEN /\ gpc' = "raised"
            /\ error' = "FileNotFoundError"
            /\ progress' = Report(<<95>>)
            /\ output_file' = output_file
       ELSE /\ gpc' = "returned"
            /\ error' = error
            /\ progress' = Report(<<95, 100>>)
            /\ output_file' = artifact
    /\ work_dir' = FinallyWorkDir
    /\ UNCHANGED <<clipInputs, nprocs, artifact>>
    /\ UNCHANGED notClip

-----------------------------------------------------------------------------
(* generate_clip: inputs *)

\* (start_second, end_second) in hundredths of a second
ClipWindows == { <<0, 3000>>, <<1000, 19000>>, <<1000, 1000>>, <<3000, 1000>>,
                 <<0, 18100>> }

Word(text, s, e) == [word |-> text, start |-> s, end |-> e]

WordLists ==
    { <<>>,
      << Word(<<"e", "n", "d">>, 19000, 19100) >>,
      << Word(<<"U", "m", ",">>, 1500, 1540) >>,
      << Word(<<"n", "o", "w">>, 2900, 3100) >>,
      << Word(<<"S", "o">>, 1200, 1250), Word(<<" ", "u", "h">>, 1260, 1300),
         Word(<<"l", "i", "s", "t", "e", "n">>, 1500, 1560),
         Word(<<"n", "o", "w">>, 2900, 3100) >> }

\* _suggest_clips is not running
SuggestIdle ==
    /\ segments = <<>> /\ energy_scores = <<>> /\ top_n = 0
    /\ min_dur = 0 /\ max_dur = 0 /\ clips = <<>> /\ selected = <<>>
    /\ spc = "idle" /\ wi = 1 /\ si = 0 /\ ci = 1

ClipInit ==
    /\ video_exists \in BOOLEAN
    /\ \E w \in ClipWindows : start_second = w[1] /\ end_second = w[2]
    /\ caption_style \in {"hormozi", "branded", "neon"}
    /\ transcript_words \in WordLists
    /\ clean_fillers \in BOOLEAN
    /\ outro \in {"none", "missing", "present"}
    /\ output_dir \in BOOLEAN
    /\ has_callback \in BOOLEAN
    /\ best_enc \in {"h264_nvenc", CPU_ENC}
    /\ gpc = "validate"
    /\ stage_log = <<>> /\ attempts = <<>> /\ nprocs = 0 /\ progress = <<>>
    /\ artifact = "none" /\ work_dir = "none" /\ output_file = "none"
    /\ error = "none"
    /\ SuggestIdle
    /\ BatchIdle
    /\ CaptionIdle
    /\ CropIdle
    /\ EnergyIdle /\ TranscribeIdle /\ MainIdle

ClipNext ==
    \/ Validate \/ Trim \/ Crop \/ CaptionRun \/ CaptionSkip
    \/ Normalize \/ ConcatRun \/ ConcatSkip \/ Finalize

SpecClip == ClipInit /\ [][ClipNext]_vars

-----------------------------------------------------------------------------
(* generate_clip: properties *)

InLog(name) == \E k \in 1..Len(stage_log) : stage_log[k] = name

StageRank(name) ==
    CASE name = "Trim" -> 1
      [] name = "Crop" -> 2
      [] name = "Caption" -> 3
      [] name = "Normalize" -> 4
      [] name = "Concat" -> 5
      [] name = "Finalize" -> 6

\* the steps that are run through an encoder with a libx264 retry
RetrySteps == {"crop", "burn", "outro_scale", "main_reenc"}

\* the steps that write a video file with a single run
SingleRunSteps == {"normalize", "concat"}

LastAttempt == attempts[Len(attempts)]

\* C5: the stages run in the order Trim, Crop, Caption, Normalize, Concat,
\* Finalize, none of them twice, and a run that returns a clip has run Trim,
\* Crop, Normalize and Finalize.
C5_StageOrder ==
    /\ \A x, y \in 1..Len(stage_log) :
          x < y => StageRank(stage_log[x]) < StageRank(stage_log[y])
    /\ gpc = "returned" =>
          InLog("Trim") /\ InLog("Crop") /\ InLog("Normalize") /\ InLog("Finalize")

\* a returned clip whose run went through all six stages
C5_Witness ==
    /\ gpc = "returned"
    /\ stage_log = <<"Trim", "Crop", "Caption", "Normalize", "Concat", "Finalize">>

\* C6 as claimed: Caption is skipped exactly when no transcript word overlaps
\* the clip's time window, Concat exactly when no outro is supplied.
C6_SkippedExactlyAsClaimed ==
    /\ gpc \in {"normalize", "concat", "finalize", "returned"} =>
          (InLog("Caption") <=>
              \E k \in 1..Len(transcript_words) :
                  /\ transcript_words[k].end > start_second
                  /\ transcript_words[k].start < end_second)
    /\ gpc \in {"finalize", "returned"} => (InLog("Concat") <=> outro # "none")

\* C6 amended: Caption is skipped exactly when no word is left after keeping
\* the words that overlap the clip's window and, with clean_fillers set,
\* dropping the filler words; Concat is skipped exactly when no outro is
\* supplied or the supplied outro file does not exist.
C6_OptionalStages ==
    /\ gpc \in {"normalize", "concat", "finalize", "returned"} =>
          (InLog("Caption") <=>
              \E k \in 1..Len(transcript_words) :
                  /\ transcript_words[k].end > start_second
                  /\ transcript_words[k].start < end_second
                  /\ clean_fillers => ~IsFiller(transcript_words[k]))
    /\ gpc \in {"finalize", "returned"} => (InLog("Concat") <=> outro = "present")

\* a returned clip without captions although a (filler) word overlaps its
\* window, and without outro although an outro path was supplied
C6_Witness ==
    /\ gpc = "returned"
    /\ ~InLog("Caption")
    /\ \E k \in 1..Len(transcript_words) :
          /\ transcript_words[k].end > start_second
          /\ transcript_words[k].start < end_second
    /\ outro = "missing"
    /\ ~InLog("Concat")

\* C7 as claimed: a stage raises after a failed run of one of its video
\* writing steps (crop, burn, normalize, the steps of concat) only when that
\* run was the libx264 attempt.
C7_RaisedOnlyAfterSoftwareAttempt ==
    (/\ gpc = "raised"
     /\ attempts # <<>>
     /\ LastAttempt.step \in RetrySteps \cup SingleRunSteps
     /\ LastAttempt.outcome = "fail")
    => LastAttempt.enc = CPU_ENC

\* C7 amended: crop, burn and the two re-encodes of concat are run with the
\* preferred encoder first, a nonzero exit of an encoder other than libx264
\* is followed by the same step with libx264, and their failure is raised
\* only after the libx264 run has exited nonzero; the normalize run and the
\* final concat run are made once, with stream copy and without a retry, and
\* a nonzero exit raises.
C7_FallbackWhereUsed ==
    /\ \A k \in 1..Len(attempts) :
          attempts[k].step \in RetrySteps =>
            /\ (attempts[k].outcome = "fail" /\ attempts[k].enc # CPU_ENC) =>
                  /\ k < Len(attempts)
                  /\ attempts[k + 1].step = attempts[k].step
                  /\ attempts[k + 1].enc = CPU_ENC
            /\ (attempts[k].outcome = "fail" /\ attempts[k].enc = CPU_ENC) =>
                  k = Len(attempts) /\ gpc = "raised"
            /\ (k > 1 /\ attempts[k - 1].step = attempts[k].step) =>
                  /\ attempts[k - 1].enc = best_enc
                  /\ attempts[k - 1].outcome = "fail"
                  /\ attempts[k].enc = CPU_ENC
            /\ (k = 1 \/ attempts[k - 1].step # attempts[k].step) =>
                  attempts[k].enc = best_enc
    /\ \A k \in 1..Len(attempts) :
          attempts[k].step \in SingleRunSteps =>
            /\ attempts[k].enc = "copy"
            /\ k = Len(attempts)
            /\ k > 1 => attempts[k - 1].step # attempts[k].step
            /\ attempts[k].outcome = "fail" => gpc = "raised"

\* a stage that raised after the hardware run and the libx264 run both failed
C7_Witness ==
    /\ gpc = "raised"
    /\ Len(attempts) >= 2
    /\ attempts[Len(attempts) - 1] = Run("burn", "h264_nvenc", "fail")
    /\ LastAttempt = Run("burn", CPU_ENC, "fail")

\* C8: an encode run that exits with status zero and leaves a missing or
\* undersized output is retried with libx264, and the stage does not return
\* with that output.
C8_ZeroExitBadOutputIsFailure ==
    \A k \in 1..Len(attempts) :
        (/\ attempts[k].step \in RetrySteps
         /\ attempts[k].outcome \in {"zero_missing", "zero_small"})
        => IF attempts[k].enc # CPU_ENC
           THEN k < Len(attempts) /\ attempts[k + 1].enc = CPU_ENC
           ELSE gpc = "raised"

\* a stage has failed on the preferred encoder and on libx264 (one and the
\* same run when libx264 is the preferred encoder)
FailedOnBoth(att) ==
    /\ att # <<>>
    /\ att[Len(att)].step \in RetrySteps
    /\ att[Len(att)].enc = CPU_ENC
    /\ att[Len(att)].outcome = "fail"

StageOfStep(step) ==
    CASE step = "crop" -> "Crop"
      [] step = "burn" -> "Caption"
      [] step \in {"outro_scale", "main_reenc"} -> "Concat"

\* C9: the step in which a stage fails on both encoders ends generate_clip
\* with an error, having run that stage once and no other; after the error
\* nothing runs any more.
C9_FailureIsFinal ==
    [][ /\ gpc # "raised"
        /\ FailedOnBoth(attempts') =>
              /\ gpc' = "raised"
              /\ error' # "none"
              /\ stage_log' = Append(stage_log, StageOfStep(attempts'[Len(attempts')].step))
              /\ ~InLog(StageOfStep(attempts'[Len(attempts')].step))
      ]_vars

\* the crop failed on both encoders and nothing after it ran
C9_Witness ==
    /\ gpc = "raised"
    /\ error = "RuntimeError"
    /\ Len(attempts) >= 2
    /\ attempts[Len(attempts) - 1] = Run("crop", "h264_nvenc", "fail")
    /\ LastAttempt = Run("crop", CPU_ENC, "fail")
    /\ stage_log = <<"Trim", "Crop">>

\* C10: a request with a missing source file, with end <= start or with a
\* duration above 180 s runs no external process, reports no progress and
\* starts no stage.
C10_RejectedBeforeAnyStage ==
    (\/ ~video_exists
     \/ end_second <= start_second
     \/ end_second - start_second > 18000)
    => /\ nprocs = 0
       /\ attempts = <<>>
       /\ progress = <<>>
       /\ stage_log = <<>>
       /\ gpc \in {"validate", "raised"}

\* a request of 181 s for an existing file, with a callback, was rejected
C10_Witness ==
    /\ gpc = "raised"
    /\ error = "ValueError"
    /\ video_exists
    /\ has_callback
    /\ end_second - start_second = 18100

-----------------------------------------------------------------------------
(* Python float arithmetic (IEEE 754 binary64, round to nearest even), as    *)
(* used by int((i / total) * 100 + pct / total) in main.py.  A positive      *)
(* float is [bits, exp]: 53 bits, the first one 1, standing for              *)
(* 0.b1 b2 ... b53 (binary) * 2^exp; zero has no bits.                       *)

MANT == 53

RECURSIVE Pow2(_)
Pow2(n) == IF n = 0 THEN 1 ELSE 2 * Pow2(n - 1)

Zeros(n) == [k \in 1..n |-> 0]

FloatZero == [bits |-> <<>>, exp |-> 0]

\* the carry into bit k of a + b (bit 1 is the most significant)
CarryInto(a, b, k) ==
    \E j \in (k + 1)..Len(a) :
        /\ a[j] = 1 /\ b[j] = 1
        /\ \A m \in (k + 1)..(j - 1) : a[m] + b[m] = 1

\* a + b for two bit sequences of one length; the sum has one more bit
AddBits(a, b) ==
    [k \in 1..(Len(a) + 1) |->
        IF k = 1 THEN (IF CarryInto(a, b, 0) THEN 1 ELSE 0)
        ELSE (a[k - 1] + b[k - 1] + (IF CarryInto(a, b, k - 1) THEN 1 ELSE 0)) % 2]
    \o <<>>

\* index of the first 1 bit, 0 if there is none
FirstOne(bits) ==
    IF \A k \in 1..Len(bits) : bits[k] = 0 THEN 0
    ELSE CHOOSE k \in 1..Len(bits) : bits[k] = 1 /\ \A j \in 1..(k - 1) : bits[j] = 0

\* 0.bits0 * 2^exp0 (plus a nonzero rest below the last bit if sticky),
\* rounded to the nearest float, ties to even
FloatRound(bits0, sticky, exp0) ==
    LET f == FirstOne(bits0)
    IN  IF f = 0 THEN FloatZero
        ELSE
        LET bits == SubSeq(bits0, f, Len(bits0))
            exp == exp0 - (f - 1)
            L == Len(bits)
        IN  IF L <= MANT THEN [bits |-> bits \o Zeros(MANT - L), exp |-> exp]
            ELSE
            LET kept == SubSeq(bits, 1, MANT)
                guard == bits[MANT + 1]
                rest == sticky \/ \E k \in (MANT + 2)..L : bits[k] = 1
                up == guard = 1 /\ (rest \/ kept[MANT] = 1)
                inc == AddBits(kept, Zeros(MANT - 1) \o <<1>>)
            IN  IF ~up THEN [bits |-> kept, exp |-> exp]
                ELSE IF inc[1] = 1 THEN [bits |-> SubSeq(inc, 1, MANT), exp |-> exp + 1]
                ELSE [bits |-> Tail(inc), exp |-> exp]

\* 2^k mod m
RECURSIVE PowMod(_, _)
PowMod(k, m) ==
    IF k = 0 THEN 1 % m
    ELSE IF k % 2 = 0 THEN (PowMod(k \div 2, m) * PowMod(k \div 2, m)) % m
    ELSE (2 * PowMod(k - 1, m)) % m

\* the remainder left after k bits of the binary expansion of num/den < 1
DivRem(num, den, k) == (num * PowMod(k, den)) % den

\* the first n bits of the binary expansion of num/den < 1
DivBits(num, den, n) ==
    [k \in 1..n |-> IF 2 * DivRem(num, den, k - 1) >= den THEN 1 ELSE 0] \o <<>>

\* n / d for the integers 0 <= n and 0 < d
FloatDiv(n, d) ==
    IF n = 0 THEN FloatZero
    ELSE LET e == CHOOSE x \in -12..12 :
                    IF x >= 1 THEN Pow2(x - 1) * d <= n /\ n < Pow2(x) * d
                    ELSE d <= n * Pow2(1 - x) /\ n * Pow2(-x) < d
             num == IF e >= 0 THEN n ELSE n * Pow2(-e)
             den == IF e >= 0 THEN d * Pow2(e) ELSE d
         IN  FloatRound(DivBits(num, den, MANT + 1), DivRem(num, den, MANT + 1) # 0, e)

\* x * 100 (100 = 64 + 32 + 4)
FloatMul100(x) ==
    IF x.bits = <<>> THEN FloatZero
    ELSE LET a == <<0, 0>> \o x.bits \o Zeros(6)
             b == <<0, 0, 0>> \o x.bits \o Zeros(5)
             c == Zeros(6) \o x.bits \o Zeros(2)
         IN  FloatRound(AddBits(AddBits(a, b), <<0>> \o c), FALSE, x.exp + 10)

\* x + y
FloatAdd(x, y) ==
    IF x.bits = <<>> THEN y
    ELSE IF y.bits = <<>> THEN x
    ELSE LET e == Max2(x.exp, y.exp)
             L == MANT + e - Min2(x.exp, y.exp)
             xs == Zeros(e - x.exp) \o x.bits \o Zeros(L - MANT - (e - x.exp))
             ys == Zeros(e - y.exp) \o y.bits \o Zeros(L - MANT - (e - y.exp))
         IN  FloatRound(AddBits(xs, ys), FALSE, e + 1)

RECURSIVE BitsToInt(_)
BitsToInt(bits) ==
    IF bits = <<>> THEN 0
    ELSE 2 * BitsToInt(SubSeq(bits, 1, Len(bits) - 1)) + bits[Len(bits)]

\* int(x)
FloatTrunc(x) ==
    IF x.bits = <<>> \/ x.exp <= 0 THEN 0 ELSE BitsToInt(SubSeq(x.bits, 1, x.exp))

-----------------------------------------------------------------------------
(* main.py: handle_batch_clips; cli.py: the export loop of cmd_process *)

\* the percentages generate_clip passes to its progress callback
Milestones == {10, 30, 50, 65, 70, 85, 95, 100}

\* len(clips) of the requests
BatchSizes == {1, 2, 3, 50}

\* int((i / total) * 100 + pct / total)
CallbackPercent(i, total, pct) ==
    FloatTrunc(FloatAdd(FloatMul100(FloatDiv(i, total)), FloatDiv(pct, total)))

\* int((i / total) * 100)
LoopPercent(i, total) == FloatTrunc(FloatMul100(FloatDiv(i, total)))

\* the two expressions, computed once for every argument that occurs
PercentTable ==
    [t \in BatchSizes |->
        [i \in 0..(t - 1) |->
            [p \in Milestones \cup {0} |->
                IF p = 0 THEN LoopPercent(i, t) ELSE CallbackPercent(i, t, p)]]]

BatchPercent(i, total, pct) == PercentTable[total][i][pct]

\* everything written to stderr so far: the callback of the running call
\* maps each pct of generate_clip to a percentage of the batch
Stream ==
    IF handler = "batch_clips" /\ bpc = "clip"
    THEN events \o [k \in 1..Len(progress) |-> BatchPercent(bi, Len(bclips), progress[k])]
    ELSE events

\* caption_style=clip.get("caption_style", "hormozi") / config.get(..., "branded")
DefaultStyle == IF handler = "batch_clips" THEN "hormozi" ELSE "branded"

DigitChars == <<"0", "1", "2", "3", "4", "5", "6", "7", "8", "9">>

\* str(n) for 0 <= n < 100
Str(n) == IF n < 10 THEN <<DigitChars[n + 1]>>
          ELSE <<DigitChars[(n \div 10) + 1], DigitChars[(n % 10) + 1]>>

\* c.isalnum() or c in "-_ "
TitleChar(c) ==
    \/ \E k \in 1..Len(LowerChars) : LowerChars[k] = c
    \/ \E k \in 1..Len(UpperChars) : UpperChars[k] = c
    \/ \E k \in 1..Len(DigitChars) : DigitChars[k] = c
    \/ c \in {"-", "_", " "}

\* safe_title: the characters kept, stripped, blanks replaced, 50 at most
SafeTitle(title) ==
    LET kept == Strip(SelectSeq(title, TitleChar))
    IN  Take([k \in 1..Len(kept) |-> IF kept[k] = " " THEN "_" ELSE kept[k]], 50)

\* final_path: os.path.join(output_dir or work_dir, f"{safe_title}_short.mp4");
\* every call has a work_dir of its own (tempfile.mkdtemp)
FinalPath(title, i) ==
    [dir  |-> IF output_dir THEN <<"output_dir">> ELSE <<"work_dir", i>>,
     name |-> SafeTitle(title) \o <<"_", "s", "h", "o", "r", "t", ".", "m", "p", "4">>]

\* the entry appended for clip i after generate_clip returned or raised
ResultEntry ==
    IF handler = "batch_clips"
    THEN IF gpc = "returned"
         THEN [clip_index |-> bi, status |-> "success",
               output_path |-> FinalPath(bclips[bi + 1].title, bi), file |-> output_file]
         ELSE [clip_index |-> bi, status |-> "error", error |-> error]
    ELSE IF gpc = "returned"
         THEN [output_path |-> FinalPath(bclips[bi + 1].title, bi), file |-> output_file]
         ELSE [status |-> "error", error |-> error]

\* mutant: the first failure ends the loop
AfterCollect_Halt == IF gpc = "raised" THEN "done" ELSE "loop"

\* after the try/except the for loop goes on with the next clip
AfterCollect == "loop"

\* the head of the loop body and the call of generate_clip
BeginClip ==
    /\ bpc = "loop"
    /\ bi < Len(bclips)
    /\ events' = IF handler = "batch_clips"
                 THEN Append(events, BatchPercent(bi, Len(bclips), 0))
                 ELSE events
    /\ start_second' = bclips[bi + 1].start_second
    /\ end_second' = bclips[bi + 1].end_second
    /\ gpc' = "validate"
    /\ stage_log' = <<>> /\ attempts' = <<>> /\ nprocs' = 0 /\ progress' = <<>>
    /\ artifact' = "none" /\ work_dir' = "none" /\ output_file' = "none"
    /\ error' = "none"
    /\ bpc' = "clip"
    /\ UNCHANGED <<video_exists, caption_style, transcript_words, clean_fillers,
                   outro, output_dir, has_callback, best_enc>>
    /\ UNCHANGED <<handler, bclips, faulty, bi, results>>
    /\ UNCHANGED notLoop

\* generate_clip runs; outside the clips of faulty every external run goes well
RunClip ==
    /\ bpc = "clip"
    /\ ClipNext
    /\ bi \notin faulty => \A k \in 1..Len(attempts') : attempts'[k].outcome = "ok"

\* results.append(...) in the try or in the except clause
CollectClip ==
    /\ bpc = "clip"
    /\ gpc \in {"returned", "raised"}
    /\ results' = Append(results, ResultEntry)
    /\ events' = Stream
    /\ bi' = bi + 1
    /\ bpc' = AfterCollect
    /\ UNCHANGED <<handler, bclips, faulty>>
    /\ UNCHANGED <<notLoop, clipVars>>

\* the loop is over: emit_result / the summary line
FinishLoop ==
    /\ bpc = "loop"
    /\ bi >= Len(bclips)
    /\ bpc' = "done"
    /\ UNCHANGED <<handler, bclips, faulty, bi, results, events>>
    /\ UNCHANGED <<notLoop, clipVars>>

ClipRequest(s, e, title) == [start_second |-> s, end_second |-> e, title |-> title]

\* title=clip.get("title", f"clip_{i + 1}") with no title in the request
DefaultTitle(k) == <<"c", "l", "i", "p", "_">> \o Str(k)

TitleSoWeGo == <<"S", "o", " ", "w", "e", " ", "g", "o">>

\* the titles of the requests: none given, the same text for every clip, or
\* texts that differ in their punctuation (the last one in its words)
TitleKinds == {"default", "same", "punctuation"}

TitleOf(kind, k) ==
    CASE kind = "default" -> DefaultTitle(k)
      [] kind = "same" -> TitleSoWeGo \o <<".", ".", ".">>
      [] OTHER -> IF k = 1 THEN TitleSoWeGo \o <<"?", ".", ".", ".">>
                  ELSE IF k = 2 THEN TitleSoWeGo \o <<"!", ".", ".", ".">>
                  ELSE <<"T", "h", "e", "n", " ">> \o Str(k) \o <<".", ".", ".">>

\* the largest batch whose requests carry titles of every kind
MaxTitled == 3

\* the requests: all valid, or one of the first two with end <= start
ClipRequests(total) ==
    { [k \in 1..total |-> IF k = bad THEN ClipRequest(3000, 1000, TitleOf(kind, k))
                                     ELSE ClipRequest(0, 3000, TitleOf(kind, k))]
      : bad \in 0..Min2(2, total),
        kind \in IF total <= MaxTitled THEN TitleKinds ELSE {"default"} }

FaultyChoices(total) ==
    { {}, {0}, {total - 1}, {0, 1} \cap 0..(total - 1) }

BatchInit ==
    /\ handler \in {"batch_clips", "process"}
    /\ \E total \in BatchSizes :
          /\ bclips \in ClipRequests(total)
          /\ faulty \in FaultyChoices(total)
    /\ bi = 0 /\ results = <<>> /\ events = <<>> /\ bpc = "loop"
    /\ video_exists \in BOOLEAN
    /\ start_second = 0 /\ end_second = 0
    /\ caption_style = DefaultStyle
    /\ transcript_words \in { <<>>, << Word(<<"n", "o", "w">>, 2900, 3100) >> }
    /\ clean_fillers = TRUE
    /\ outro = "none"
    /\ output_dir \in (IF handler = "process" THEN {TRUE} ELSE BOOLEAN)
    /\ has_callback = (handler = "batch_clips")
    /\ best_enc = "h264_nvenc"
    /\ gpc = "idle"
    /\ stage_log = <<>> /\ attempts = <<>> /\ nprocs = 0 /\ progress = <<>>
    /\ artifact = "none" /\ work_dir = "none" /\ output_file = "none"
    /\ error = "none"
    /\ SuggestIdle
    /\ CaptionIdle
    /\ CropIdle
    /\ EnergyIdle /\ TranscribeIdle /\ MainIdle

BatchNext == BeginClip \/ RunClip \/ CollectClip \/ FinishLoop

SpecBatch == BatchInit /\ [][BatchNext]_vars

-----------------------------------------------------------------------------
(* the clip loops: properties *)

\* C11: the percentages reported for a task never decrease, within a clip
\* and from one clip of a batch to the next, failed clips included
C11_ProgressMonotone ==
    \A k \in 2..Len(Stream) : Stream[k - 1] <= Stream[k]

BadRequest(k) == bclips[k].end_second <= bclips[k].start_second

Failed(entry) == "status" \in DOMAIN entry /\ entry.status = "error"

\* C13 as stated: a failed clip never ends the loop, every clip is attempted
\* in request order, there is one entry per clip, and every failed entry
\* carries the index of its clip and the reason
C13_FailedEntriesIndexed ==
    /\ bpc \in {"loop", "clip"} => Len(results) = bi
    /\ bpc = "done" => Len(results) = Len(bclips)
    /\ \A k \in 1..Len(results) :
          /\ video_exists /\ BadRequest(k) => Failed(results[k])
          /\ Failed(results[k]) =>
                /\ "clip_index" \in DOMAIN results[k]
                /\ results[k].clip_index = k - 1
                /\ results[k].error # "none"

\* C13 (amended): as above, but the index is a field of the entry in
\* handle_batch_clips only; in the loop of cmd_process a failed entry holds
\* the reason alone and is the k-th entry of the list for the k-th clip
C13_SiblingsNotHalted ==
    /\ bpc \in {"loop", "clip"} => Len(results) = bi
    /\ bpc = "clip" => bi < Len(bclips) /\ start_second = bclips[bi + 1].start_second
    /\ bpc = "done" => Len(results) = Len(bclips)
    /\ bpc = "clip" /\ gpc = "raised" => ENABLED CollectClip
    /\ \A k \in 1..Len(results) :
          /\ video_exists /\ BadRequest(k) =>
                Failed(results[k]) /\ results[k].error = "ValueError"
          /\ ~video_exists => Failed(results[k]) /\ results[k].error = "FileNotFoundError"
          /\ Failed(results[k]) => results[k].error # "none"
          /\ handler = "batch_clips" =>
                "clip_index" \in DOMAIN results[k] /\ results[k].clip_index = k - 1
          /\ handler = "process" => "clip_index" \notin DOMAIN results[k]

\* a batch ended whose first clip failed in a stage and whose last succeeded
C13_Witness ==
    /\ bpc = "done" /\ handler = "batch_clips" /\ Len(results) = 3
    /\ Failed(results[1]) /\ results[1].error = "RuntimeError"
    /\ Failed(results[2]) /\ results[2].error = "ValueError"
    /\ ~Failed(results[3])

-----------------------------------------------------------------------------
(* caption_renderer.py: render_captions; times in hundredths of a second *)

MIN_WORD_DURATION == 5

\* mutant: no minimum duration
SanitizeWord_NoFloor(w) == [w EXCEPT !.word = Strip(w.word)]

\* one word of _sanitize_words: the text stripped, the end moved so that the
\* word lasts MIN_WORD_DURATION at least
SanitizeWord(w) ==
    [w EXCEPT !.word = Strip(w.word),
              !.end = IF w.end <= w.start THEN w.start + MIN_WORD_DURATION
                      ELSE IF w.end - w.start < MIN_WORD_DURATION
                           THEN w.start + MIN_WORD_DURATION
                      ELSE w.end]

_sanitize_words(words) ==
    LET kept == SelectSeq(words, LAMBDA w : Strip(w.word) # <<>>)
    IN  [k \in 1..Len(kept) |-> SanitizeWord(kept[k])]

\* seconds_to_ass: H:MM:SS.cc, as [h, m, s] with s in hundredths
seconds_to_ass(t) ==
    [h |-> t \div 360000, m |-> (t % 360000) \div 6000, s |-> t % 6000]

\* the keys of each style of STYLES
CommonKeys == {"description", "font_name", "font_size", "primary_color", "active_color",
               "outline_color", "back_color", "bold", "outline_width", "shadow_depth",
               "alignment", "margin_v", "words_per_chunk", "uppercase",
               "gradient_overlay", "logo_support"}

StyleKeys(style) ==
    CASE style = "hormozi" -> CommonKeys \cup {"active_box_color", "border_style"}
      [] style = "branded" -> CommonKeys \cup {"active_box_color", "gradient_opacity",
                                                "logo_margin_x", "logo_margin_y",
                                                "logo_height"}
      [] OTHER -> CommonKeys

words_per_chunk(style) ==
    CASE style = "hormozi" -> 3
      [] style = "branded" -> 4
      [] OTHER -> 5

Uppercase(style) == style = "hormozi"

\* generate_ass_header: the keys it reads with style[...]; the header
\* defines the style Default
generate_ass_header(style) ==
    IF {"bold", "font_name", "font_size", "primary_color", "outline_color", "back_color",
        "outline_width", "shadow_depth", "alignment", "margin_v"} \subseteq StyleKeys(style)
    THEN "Default" ELSE "KeyError"

\* generate_branded_header: defines the style BrandedNormal
generate_branded_header(style) ==
    IF {"font_name", "font_size", "alignment", "margin_v"} \subseteq StyleKeys(style)
    THEN "BrandedNormal" ELSE "KeyError"

\* words[i : i + n] for i in range(0, len(words), n)
Chunks(words, n) ==
    [c \in 1..((Len(words) + n - 1) \div n) |->
        SubSeq(words, (c - 1) * n + 1, Min2(c * n, Len(words)))]

UpperChar(c) ==
    IF \E k \in 1..Len(LowerChars) : LowerChars[k] = c
    THEN UpperChars[CHOOSE k \in 1..Len(LowerChars) : LowerChars[k] = c]
    ELSE c
Upper(text) == [k \in 1..Len(text) |-> UpperChar(text[k])]

\* str.isupper()
StrIsUpper(text) ==
    /\ \E k \in 1..Len(text) : IsUpper(text[k])
    /\ \A k \in 1..Len(text) : UpperChar(text[k]) = text[k]

\* _normalize_case
_normalize_case(text) ==
    LET stripped == StripChars(text, PunctChars)
    IN  IF StrIsUpper(stripped) /\ Len(stripped) >= 2 THEN text
        ELSE IF stripped = <<"I">> \/ (Len(stripped) >= 2 /\ SubSeq(stripped, 1, 2) = <<"I", "'">>)
             THEN text
        ELSE Lower(text)

\* the texts of a chunk in the branded style: the first one capitalised
Normalized(chunk) ==
    [j \in 1..Len(chunk) |->
        LET text == _normalize_case(chunk[j].word)
        IN  IF j = 1
            THEN (IF Len(text) > 1 THEN <<UpperChar(text[1])>> \o Tail(text) ELSE Upper(text))
            ELSE text]

\* the Dialogue line of one chunk in the hormozi, karaoke and subtle styles
ChunkEvent(style, chunk, offset) ==
    [style |-> "Default",
     start |-> seconds_to_ass(Max2(0, chunk[1].start - offset)),
     end |-> seconds_to_ass(Max2(0, chunk[Len(chunk)].end - offset)),
     parts |-> [j \in 1..Len(chunk) |->
                  IF style = "subtle" THEN [text |-> chunk[j].word]
                  ELSE [kf |-> chunk[j].end - chunk[j].start,
                        text |-> IF Uppercase(style) THEN Upper(chunk[j].word)
                                 ELSE chunk[j].word]]]

\* mutant: a word that overlaps the start of the clip gets no line
BrandedWordShown_FromStart(w, offset) == w.start >= offset

\* if w_end <= w_start: continue
BrandedWordShown(w, offset) == Max2(0, w.end - offset) > Max2(0, w.start - offset)

\* the Dialogue lines of one chunk in the branded style: one for each word
BrandedEvents(chunk, offset) ==
    LET shown == SelectSeq([j \in 1..Len(chunk) |-> j],
                           LAMBDA j : BrandedWordShown(chunk[j], offset))
    IN  [e \in 1..Len(shown) |->
            [style |-> "BrandedNormal",
             start |-> seconds_to_ass(Max2(0, chunk[shown[e]].start - offset)),
             end |-> seconds_to_ass(Max2(0, chunk[shown[e]].end - offset)),
             parts |-> [j \in 1..Len(chunk) |->
                          [text |-> Normalized(chunk)[j], boxed |-> j = shown[e]]]]]

RECURSIVE Concat(_)
Concat(seqs) == IF seqs = <<>> THEN <<>> ELSE Head(seqs) \o Concat(Tail(seqs))

\* _render_hormozi, _render_karaoke, _render_subtle, _render_branded
RenderStyle(style, words, offset) ==
    LET chunks == Chunks(words, words_per_chunk(style))
    IN  IF style = "branded"
        THEN [header |-> generate_branded_header(style),
              events |-> Concat([c \in 1..Len(chunks) |-> BrandedEvents(chunks[c], offset)])]
        ELSE [header |-> generate_ass_header(style),
              events |-> [c \in 1..Len(chunks) |-> ChunkEvent(style, chunks[c], offset)]]

\* mutant: an empty word list is an error
EmptyCaptions_Raise(style) == [header |-> "ValueError", events |-> <<>>]

\* if not words: f.write(generate_ass_header(get_style(caption_style)))
EmptyCaptions(style) == [header |-> generate_ass_header(style), events |-> <<>>]

\* the document is written unless building it raised
WriteDocument(doc) ==
    IF cap_style \notin STYLES \/ doc.header \in {"KeyError", "ValueError"}
    THEN cpc' = "raised" /\ ass_doc' = ass_doc
    ELSE cpc' = "written" /\ ass_doc' = doc

\* generate_clip 159-168: the words of the clip's range, cleaned unless
\* clean_fillers is off; render_captions is not called without words
SelectWords ==
    /\ cpc = "select"
    /\ clip_words' =
          IF cap_direct THEN cap_words
          ELSE IF cap_clean
               THEN _clean_transcript_words(ClipWords(cap_words, cap_offset, cap_end))
               ELSE ClipWords(cap_words, cap_offset, cap_end)
    /\ cpc' = IF ~cap_direct /\ clip_words' = <<>> THEN "skipped" ELSE "sanitize"
    /\ UNCHANGED <<cap_words, cap_offset, cap_end, cap_clean, cap_style, cap_direct,
                   sanitized, ass_doc>>
    /\ UNCHANGED notCaption

\* render_captions 109
SanitizeWords ==
    /\ cpc = "sanitize"
    /\ sanitized' = _sanitize_words(clip_words)
    /\ cpc' = "render"
    /\ UNCHANGED <<cap_words, cap_offset, cap_end, cap_clean, cap_style, cap_direct,
                   clip_words, ass_doc>>
    /\ UNCHANGED notCaption

\* render_captions 110-114
WriteEmpty ==
    /\ cpc = "render"
    /\ sanitized = <<>>
    /\ WriteDocument(EmptyCaptions(cap_style))
    /\ UNCHANGED <<cap_words, cap_offset, cap_end, cap_clean, cap_style, cap_direct,
                   clip_words, sanitized>>
    /\ UNCHANGED notCaption

\* render_captions 116-132
WriteStyled ==
    /\ cpc = "render"
    /\ sanitized # <<>>
    /\ WriteDocument(RenderStyle(cap_style, sanitized, cap_offset))
    /\ UNCHANGED <<cap_words, cap_offset, cap_end, cap_clean, cap_style, cap_direct,
                   clip_words, sanitized>>
    /\ UNCHANGED notCaption

WordAt(idx, text, s, e) == [idx |-> idx, word |-> text, start |-> s, end |-> e]

\* transcripts for a clip from 10 s to 40 s
CaptionWordLists ==
    { <<>>,
      << WordAt(1, <<" ">>, 1500, 1600) >>,
      << WordAt(1, <<"u", "m">>, 1500, 1540) >>,
      << WordAt(1, <<"a">>, 1100, 1101), WordAt(2, <<"b">>, 1102, 1150),
         WordAt(3, <<"U", "m", ",">>, 1200, 1240), WordAt(4, <<"A", "I">>, 1500, 1560),
         WordAt(5, <<"I", "'", "m">>, 1600, 1650), WordAt(6, <<" ", "I", "s">>, 1660, 1700),
         WordAt(7, <<"N", "o", "w">>, 3900, 4100) >>,
      << WordAt(1, <<"s", "o">>, 950, 1050), WordAt(2, <<"i", "t">>, 1060, 1100),
         WordAt(3, <<"g", "o", "e", "s">>, 1110, 1150), WordAt(4, <<"o", "n">>, 1160, 1200),
         WordAt(5, <<"a", "n", "d">>, 1210, 1260) >>,
      << WordAt(1, <<"x">>, 1200, 1200), WordAt(2, <<"y">>, 1300, 1250) >>,
      << WordAt(1, <<"p", "r", "e">>, 500, 600), WordAt(2, <<"i", "n">>, 1100, 1200) >>,
      << WordAt(1, <<"o", "n", "e">>, 1000, 1050), WordAt(2, <<"t", "w", "o">>, 1300, 1350),
         WordAt(3, <<"t", "h", "r", "e", "e">>, 1700, 1750) >> }

CaptionInit ==
    /\ cap_words \in CaptionWordLists
    /\ cap_offset = 1000 /\ cap_end = 4000
    /\ cap_clean \in BOOLEAN
    /\ cap_direct \in BOOLEAN
    /\ cap_direct => ~cap_clean
    /\ cap_style \in STYLES \cup {"neon"}
    /\ clip_words = <<>> /\ sanitized = <<>> /\ ass_doc = "none" /\ cpc = "select"
    /\ SuggestIdle /\ ClipIdle /\ BatchIdle /\ CropIdle
    /\ EnergyIdle /\ TranscribeIdle /\ MainIdle

CaptionNext == SelectWords \/ SanitizeWords \/ WriteEmpty \/ WriteStyled

SpecCaption == CaptionInit /\ [][CaptionNext]_vars

-----------------------------------------------------------------------------
(* caption_renderer.py and clip_generator.py: the sanitized words *)

\* the sanitized words have been handed to a style renderer
AtRenderer == cpc \in {"render", "written", "raised"} /\ sanitized # <<>>

\* the words went through generate_clip with clean_fillers on
Cleaned == ~cap_direct /\ cap_clean

\* words in time order, each ending after it starts, none overlapping the next
WellFormed(words) ==
    /\ \A k \in 1..Len(words) : words[k].end > words[k].start
    /\ \A k \in 2..Len(words) : words[k].start >= words[k - 1].end

\* the word of the transcript that a sanitized word came from
Original(w) == cap_words[CHOOSE k \in 1..Len(cap_words) : cap_words[k].idx = w.idx]

\* C14 (as stated): every word handed to a style renderer after sanitization
\* has end > start, lasts at least 0.05 s, and has a stripped text that is not
\* a filler word.
C14_SanitizedNoFiller ==
    AtRenderer =>
        \A k \in 1..Len(sanitized) :
            /\ sanitized[k].end > sanitized[k].start
            /\ sanitized[k].end - sanitized[k].start >= MIN_WORD_DURATION
            /\ ~IsFiller(sanitized[k])

\* C14 (amended): every word handed to a style renderer has a stripped,
\* non-empty text, end > start and lasts at least 0.05 s; its text is not a
\* filler word when the words came through generate_clip with clean_fillers on.
C14_SanitizedWords ==
    AtRenderer =>
        \A k \in 1..Len(sanitized) :
            /\ sanitized[k].end > sanitized[k].start
            /\ sanitized[k].end - sanitized[k].start >= MIN_WORD_DURATION
            /\ sanitized[k].word # <<>>
            /\ Strip(sanitized[k].word) = sanitized[k].word
            /\ Cleaned => ~IsFiller(sanitized[k])

\* C14 witness: a cleaned transcript that had a filler word, a word shorter
\* than 0.05 s and a word with surrounding blanks is at the renderer
C14_Witness ==
    /\ cpc = "render" /\ Cleaned
    /\ \E k \in 1..Len(cap_words) : IsFiller(cap_words[k])
    /\ \E k \in 1..Len(cap_words) :
          cap_words[k].end - cap_words[k].start < MIN_WORD_DURATION
    /\ \E k \in 1..Len(cap_words) : Strip(cap_words[k].word) # cap_words[k].word
    /\ Len(sanitized) = Len(cap_words) - 1

\* C15: for every pair of consecutive sanitized words of a well-formed
\* transcript, the final gap (next.start - previous.end) is at most the gap
\* between the same two words of the transcript, and is never negative.
C15_GapsMonotone ==
    (AtRenderer /\ WellFormed(cap_words)) =>
        \A k \in 2..Len(sanitized) :
            LET gap == sanitized[k].start - sanitized[k - 1].end
                original_gap == Original(sanitized[k]).start
                                  - Original(sanitized[k - 1]).end
            IN  gap <= original_gap /\ gap >= 0

Rendered == cpc \in {"written", "raised"}

\* C17: for each of the four styles, rendering captions from a word list that
\* is empty, or empty after sanitization, writes a document of the header and
\* zero events and raises no error.
C17_EmptyDocument ==
    /\ (cpc = "render" /\ sanitized = <<>>) => ENABLED WriteEmpty
    /\ (Rendered /\ sanitized = <<>> /\ cap_style \in STYLES) =>
          /\ cpc = "written"
          /\ ass_doc.header = "Default"
          /\ ass_doc.events = <<>>

\* C17 witness: a word list of blank text only became empty after
\* sanitization and the branded document was written
C17_Witness ==
    /\ cpc = "written" /\ cap_style = "branded"
    /\ clip_words # <<>> /\ sanitized = <<>>

\* a time of the document, in hundredths of a second
AssToCs(t) == t.h * 360000 + t.m * 6000 + t.s

\* the positions of the sanitized words that end after the time offset
ShownIdx == SelectSeq([i \in 1..Len(sanitized) |-> i],
                      LAMBDA i : sanitized[i].end > cap_offset)

\* the chunk of the branded style that holds word i
ChunkOf(i) == Chunks(sanitized, words_per_chunk("branded"))[((i - 1) \div words_per_chunk("branded")) + 1]

\* event e of the written document shows the whole chunk of word i with the
\* box on word i only
ShowsChunkOf(e, i) ==
    LET chunk == ChunkOf(i)
        k == ((i - 1) % words_per_chunk("branded")) + 1
        parts == ass_doc.events[e].parts
    IN  /\ Len(parts) = Len(chunk)
        /\ \A j \in 1..Len(chunk) :
              /\ Lower(parts[j].text) = Lower(chunk[j].word)
              /\ parts[j].boxed <=> (j = k)

BrandedWritten == cpc = "written" /\ cap_style = "branded" /\ sanitized # <<>>

\* C18 (as stated): in the branded style each chunk of N words emits exactly N
\* events, one per word; the k-th is scoped to exactly the k-th word's
\* [start, end] shifted by the time offset, renders every word of the chunk
\* and has the box on the k-th word only.
C18_OneEventPerWord ==
    BrandedWritten =>
        /\ Len(ass_doc.events) = Len(sanitized)
        /\ \A i \in 1..Min2(Len(sanitized), Len(ass_doc.events)) :
              /\ AssToCs(ass_doc.events[i].start) = sanitized[i].start - cap_offset
              /\ AssToCs(ass_doc.events[i].end) = sanitized[i].end - cap_offset
              /\ ShowsChunkOf(i, i)

\* C18 (amended): in the branded style each word that ends after the time
\* offset emits one event, in word order, scoped to the word's [start, end]
\* shifted by the offset with the start clamped at 0; the event renders every
\* word of the word's chunk and has the box on that word only; a word that
\* ends at or before the offset emits no event.
C18_OneEventPerShownWord ==
    BrandedWritten =>
        /\ Len(ass_doc.events) = Len(ShownIdx)
        /\ \A e \in 1..Min2(Len(ShownIdx), Len(ass_doc.events)) :
              /\ AssToCs(ass_doc.events[e].start)
                    = Max2(0, sanitized[ShownIdx[e]].start - cap_offset)
              /\ AssToCs(ass_doc.events[e].end) = sanitized[ShownIdx[e]].end - cap_offset
              /\ ass_doc.events[e].style = ass_doc.header
              /\ ShowsChunkOf(e, ShownIdx[e])

\* C18 witness: a branded document of two chunks, the first of four words,
\* whose first word starts before the clip and is shown from time 0
C18_Witness ==
    /\ BrandedWritten
    /\ Len(sanitized) > words_per_chunk("branded")
    /\ Len(ass_doc.events) = Len(sanitized)
    /\ sanitized[1].start < cap_offset /\ sanitized[1].end > cap_offset
    /\ AssToCs(ass_doc.events[1].start) = 0

-----------------------------------------------------------------------------
(* video_processor.py: crop_to_vertical and _detect_face_offset *)

TARGET_W == 1080
TARGET_H == 1920

Abs(x) == IF x < 0 THEN -x ELSE x

\* int(x) of the quotient n / d: truncation toward zero
IntDiv(n, d) == IF n >= 0 THEN n \div d ELSE -((-n) \div d)

\* crop_w = int(crop_h * target_ratio), target_ratio = 1080 / 1920
CropWidth(height) == IntDiv(height * TARGET_W, TARGET_H)

\* source_ratio > target_ratio
WiderThanTarget(width, height) == width * TARGET_H > TARGET_W * height

\* position i of the detections comes before position j in value order
Before(positions, i, j) ==
    positions[i] < positions[j] \/ (positions[i] = positions[j] /\ i < j)

\* the clusters, as sets of positions of the list, in the order they are found:
\* each starts at the smallest detection not yet used and takes every unused
\* detection closer to it than a quarter of the crop width
RECURSIVE FormClusters(_, _, _)
FormClusters(positions, used, crop_w) ==
    LET free == (1..Len(positions)) \ used
    IN  IF free = {} THEN <<>>
        ELSE LET idx == CHOOSE i \in free : \A j \in free \ {i} : Before(positions, i, j)
                 mask == {i \in free : 4 * Abs(positions[i] - positions[idx]) < crop_w}
             IN  <<mask>> \o FormClusters(positions, used \cup mask, crop_w)

\* if not clusters: clusters = [positions]
Clusters(positions, crop_w) ==
    IF crop_w <= 0 THEN << 1..Len(positions) >>
    ELSE FormClusters(positions, {}, crop_w)

\* clusters.sort(key=len, reverse=True): a stable sort
SortBySize(clusters) ==
    [k \in 1..Len(clusters) |->
        clusters[CHOOSE i \in 1..Len(clusters) :
            Cardinality({j \in 1..Len(clusters) :
                  \/ Cardinality(clusters[j]) > Cardinality(clusters[i])
                  \/ (Cardinality(clusters[j]) = Cardinality(clusters[i]) /\ j < i)}) = k - 1]]

\* the k-th smallest detection of a cluster
KthOf(positions, cluster, k) ==
    positions[CHOOSE i \in cluster :
        Cardinality({j \in cluster : j # i /\ Before(positions, j, i)}) = k - 1]

\* twice np.median(cluster)
Median2(positions, cluster) ==
    LET n == Cardinality(cluster)
    IN  IF n % 2 = 1 THEN 2 * KthOf(positions, cluster, (n + 1) \div 2)
        ELSE KthOf(positions, cluster, n \div 2) + KthOf(positions, cluster, n \div 2 + 1)

\* mutant: a cluster of exactly 1.5 times the second is dominant
Dominant_AtLeast(clusters) ==
    Len(clusters) = 1 \/ 2 * Cardinality(clusters[1]) >= 3 * Cardinality(clusters[2])

\* len(clusters) == 1 or len(clusters[0]) > len(clusters[1]) * 1.5
Dominant(clusters) ==
    Len(clusters) = 1 \/ 2 * Cardinality(clusters[1]) > 3 * Cardinality(clusters[2])

\* the cluster the crop is centered on
BestCluster(positions, width, crop_w) ==
    LET clusters == SortBySize(Clusters(positions, crop_w))
    IN  IF Dominant(clusters) THEN clusters[1]
        ELSE IF Abs(Median2(positions, clusters[2]) - width)
                  < Abs(Median2(positions, clusters[1]) - width)
             THEN clusters[2]
             ELSE clusters[1]

\* crop_x = max(0, min(crop_x, width - crop_w))
ClampOffset(crop_x, width, crop_w) == Max2(0, Min2(crop_x, width - crop_w))

\* _detect_face_offset: None (found = FALSE) or the x-offset of the crop
_detect_face_offset(det, width, height) ==
    IF det.kind # "positions" \/ det.positions = <<>>
    THEN [found |-> FALSE, crop_x |-> 0]
    ELSE LET crop_w == CropWidth(height)
             best == BestCluster(det.positions, width, crop_w)
             avg_face_x == IntDiv(Median2(det.positions, best), 2)
         IN  [found |-> TRUE,
              crop_x |-> ClampOffset(avg_face_x - crop_w \div 2, width, crop_w)]

\* mutant: the strategy stays "face" when no face was found
FallbackStrategy_Keep == "face"

\* else: strategy = "center"
FallbackStrategy == "center"

\* mutant: the height of the target instead of the height the width implies
FitHeight_Target(width) == TARGET_H

\* crop_h = int(crop_w / target_ratio), crop_w = width
FitHeight(width) == IntDiv(width * TARGET_H, TARGET_W)

CropFilter(w, h, x, y) == [kind |-> "crop", w |-> w, h |-> h, x |-> x, y |-> y]

\* strategy == "face" and a face was found (113-118)
FaceCrop ==
    /\ kpc = "start" /\ strategy = "face"
    /\ _detect_face_offset(detection, src_width, src_height).found
    /\ vf' = CropFilter(CropWidth(src_height), src_height,
                        _detect_face_offset(detection, src_width, src_height).crop_x, 0)
    /\ kpc' = "done"
    /\ UNCHANGED <<src_width, src_height, strategy, detection>>
    /\ UNCHANGED notCrop

\* strategy == "face" and no face was found: strategy = "center" (119-121)
FaceFallback ==
    /\ kpc = "start" /\ strategy = "face"
    /\ ~_detect_face_offset(detection, src_width, src_height).found
    /\ strategy' = FallbackStrategy
    /\ kpc' = "fallback"
    /\ UNCHANGED <<src_width, src_height, detection, vf>>
    /\ UNCHANGED notCrop

\* strategy == "center", source wider than the target: crop the sides (123-129)
CenterCrop ==
    /\ kpc \in {"start", "fallback"} /\ strategy = "center"
    /\ WiderThanTarget(src_width, src_height)
    /\ vf' = CropFilter(CropWidth(src_height), src_height,
                        (src_width - CropWidth(src_height)) \div 2, 0)
    /\ kpc' = "done"
    /\ UNCHANGED <<src_width, src_height, strategy, detection>>
    /\ UNCHANGED notCrop

\* strategy == "center", source taller or same: crop top and bottom, or pad
\* (130-139)
CenterFit ==
    /\ kpc \in {"start", "fallback"} /\ strategy = "center"
    /\ ~WiderThanTarget(src_width, src_height)
    /\ LET crop_h == FitHeight(src_width)
       IN  vf' = IF crop_h > src_height
                 THEN [kind |-> "pad", w |-> TARGET_W, h |-> TARGET_H]
                 ELSE CropFilter(src_width, crop_h, 0, (src_height - crop_h) \div 2)
    /\ kpc' = "done"
    /\ UNCHANGED <<src_width, src_height, strategy, detection>>
    /\ UNCHANGED notCrop

\* width and height of the sources
SourceSizes ==
    { <<1920, 1080>>, <<1280, 720>>, <<200, 110>>, <<1000, 1000>>, <<608, 1080>>,
      <<607, 1080>>, <<720, 1280>>, <<1080, 1920>>, <<720, 1920>>, <<500, 1000>> }

\* the face centers of the sampled frames, as fractions of the width in percent
FacePercents ==
    { <<>>, <<50>>, <<2>>, <<98>>, <<20, 21, 80>>, <<20, 80>>, <<20, 21, 22, 80, 81>>,
      <<80, 20, 81, 21, 50>>, <<30, 30, 70, 70>>, <<10, 11, 12, 60, 61>>,
      <<60, 10, 61, 11, 62, 12, 10, 11, 12>>,
      <<20, 20, 20, 20, 20, 21, 21, 21, 21, 21, 80, 80, 80>>,
      <<20, 20, 20, 20, 20, 21, 21, 21, 21, 21, 60, 60, 60, 60, 61, 61, 61, 61>> }

Detections(width) ==
    { [kind |-> k, positions |-> <<>>] : k \in {"import_error", "not_opened", "exception"} }
      \cup { [kind |-> "positions",
              positions |-> [k \in 1..Len(f) |-> (f[k] * width) \div 100]] : f \in FacePercents }

CropInit ==
    /\ \E size \in SourceSizes :
          /\ src_width = size[1] /\ src_height = size[2]
          /\ detection \in Detections(size[1])
    /\ strategy \in {"center", "face"}
    /\ strategy = "center" => detection.kind = "not_opened"
    /\ vf = [kind |-> "none"]
    /\ kpc = "start"
    /\ SuggestIdle /\ ClipIdle /\ BatchIdle /\ CaptionIdle
    /\ EnergyIdle /\ TranscribeIdle /\ MainIdle

CropNext == FaceCrop \/ FaceFallback \/ CenterCrop \/ CenterFit

SpecCrop == CropInit /\ [][CropNext]_vars

\* C19: for the center crop of a source wider than the target, crop_width is
\* height * 9/16 rounded to the nearest integer; a 1920x1080 source takes that
\* branch with crop_w = round(1080 * 9/16).
C19_CropWidthRounded ==
    (kpc = "done" /\ strategy = "center" /\ WiderThanTarget(src_width, src_height)) =>
        /\ vf.kind = "crop"
        /\ vf.h = src_height
        /\ vf.w = RoundHalfEven(src_height * 9, 16)

\* C20: whenever crop_to_vertical emits a crop, under the center or the face
\* strategy and for all source dimensions, 0 <= crop_x <= source_width -
\* crop_width.
C20_CropInsideFrame ==
    (kpc = "done" /\ vf.kind = "crop") =>
        /\ 0 <= vf.x
        /\ vf.x <= src_width - vf.w

\* the face strategy found a face and the crop is made
FaceDone ==
    /\ kpc = "done" /\ strategy = "face"
    /\ detection.kind = "positions" /\ detection.positions # <<>>

\* the x-offset of the crop centered on the median of a cluster
OffsetOf(cluster) ==
    LET crop_w == (src_height * 9) \div 16
        offset == Median2(detection.positions, cluster) \div 2 - crop_w \div 2
    IN  IF offset < 0 THEN 0
        ELSE IF offset > src_width - crop_w THEN Max2(0, src_width - crop_w)
        ELSE offset

\* of the two largest clusters, the one whose median is closer to the center
\* of the frame (the larger one when both are as close)
CloserToCenter(top) ==
    IF Abs(Median2(detection.positions, top[2]) - src_width)
         < Abs(Median2(detection.positions, top[1]) - src_width)
    THEN top[2] ELSE top[1]

TopClusters == SortBySize(Clusters(detection.positions, (src_height * 9) \div 16))

\* C21 (as stated): if the largest cluster has at least 1.5 times the members
\* of the second-largest, the crop is centered on the largest cluster's
\* median; otherwise on the median of the one of the two largest clusters
\* that is closer to the center of the frame.
C21_DominantAtLeast ==
    FaceDone =>
        vf.x = IF Len(TopClusters) = 1
                    \/ 2 * Cardinality(TopClusters[1]) >= 3 * Cardinality(TopClusters[2])
               THEN OffsetOf(TopClusters[1])
               ELSE OffsetOf(CloserToCenter(TopClusters))

\* C21 (amended): if the largest cluster has more than 1.5 times the members
\* of the second-largest (or is the only one), the crop is centered on its
\* median; otherwise, a ratio of exactly 1.5 included, on the median of the
\* one of the two largest clusters that is closer to the center of the frame.
C21_DominantMoreThan ==
    FaceDone =>
        vf.x = IF Len(TopClusters) = 1
                    \/ 2 * Cardinality(TopClusters[1]) > 3 * Cardinality(TopClusters[2])
               THEN OffsetOf(TopClusters[1])
               ELSE OffsetOf(CloserToCenter(TopClusters))

\* C21 witness: clusters of 3 and 2 detections (exactly 1.5 times), the
\* smaller one closer to the center of the frame, and the crop is centered on
\* the smaller one
C21_Witness ==
    /\ FaceDone
    /\ Len(TopClusters) = 2
    /\ Cardinality(TopClusters[1]) = 3 /\ Cardinality(TopClusters[2]) = 2
    /\ CloserToCenter(TopClusters) = TopClusters[2]
    /\ vf.x = OffsetOf(TopClusters[2])
    /\ vf.x # OffsetOf(TopClusters[1])

\* the filter of the center strategy for a source
CenterFilter(width, height) ==
    IF width * 16 > 9 * height
    THEN [kind |-> "crop", w |-> (height * 9) \div 16, h |-> height,
          x |-> (width - (height * 9) \div 16) \div 2, y |-> 0]
    ELSE IF (width * 16) \div 9 > height
    THEN [kind |-> "pad", w |-> 1080, h |-> 1920]
    ELSE [kind |-> "crop", w |-> width, h |-> (width * 16) \div 9,
          x |-> 0, y |-> (height - (width * 16) \div 9) \div 2]

\* no face: nothing detected, the dependency missing, the video not opened or
\* an exception inside the detection
NoFace == detection.kind # "positions" \/ detection.positions = <<>>

\* C22: with the face strategy, when no face is ever detected or the
\* detection is unavailable or fails, crop_to_vertical goes on to exactly the
\* crop of the center strategy and nothing is raised.
C22_FallbackToCenter ==
    /\ (kpc = "start" /\ strategy = "face" /\ NoFace) => ENABLED FaceFallback
    /\ (kpc = "fallback") => (NoFace /\ ENABLED (CenterCrop \/ CenterFit))
    /\ (kpc = "done" /\ NoFace) => vf = CenterFilter(src_width, src_height)

\* C22 witness: the detection dependency was missing and the center crop of
\* a source wider than the target was made
C22_Witness ==
    /\ kpc = "done" /\ detection.kind = "import_error"
    /\ vf.kind = "crop" /\ vf.x > 0

\* C30: with the center strategy and a source not wider than 9:16, the crop
\* height floor(width / target_ratio) never exceeds the source height: the
\* top/bottom crop is chosen with 0 <= crop_y <= height - crop_h and the pad
\* branch is never taken.
C30_PadNeverTaken ==
    /\ (kpc = "done") => vf.kind # "pad"
    /\ (kpc = "done" /\ strategy = "center" /\ src_width * 16 <= 9 * src_height) =>
          /\ vf.kind = "crop"
          /\ vf.h <= src_height
          /\ 0 <= vf.y /\ vf.y <= src_height - vf.h

\* C30 witness: the top/bottom crop of a source narrower than 9:16
C30_Witness ==
    /\ kpc = "done" /\ strategy = "center"
    /\ src_width * 16 < 9 * src_height
    /\ vf.kind = "crop" /\ vf.y > 0 /\ vf.h < src_height

-----------------------------------------------------------------------------
(* cli.py: _suggest_clips, the recorded interval and the windows scanned *)

\* C28: every clip candidate's recorded duration equals its recorded
\* end_second minus its recorded start_second.
C28_DurationIsInterval ==
    \A k \in 1..Len(clips) :
        clips[k].duration = clips[k].end_second - clips[k].start_second

\* C29: for each window size w with step s, every start index i that is a
\* multiple of s with i + w <= number of segments is evaluated as a candidate
\* window, the window that ends at the last segment included: the scan of a
\* window size does not stop while such an index is next.
C29_EveryWindowEvaluated ==
    (spc = "scan" /\ si % WinStep(win_sizes[wi]) = 0
                  /\ si + win_sizes[wi] <= Len(segments)) => ENABLED ScanWindow

-----------------------------------------------------------------------------
(* clip_generator.py: the final output files of one run *)

\* the entries of the clips that wrote their final file
Written == {k \in 1..Len(results) : "output_path" \in DOMAIN results[k]}

\* C26: distinct clips generated from one source video into the same output
\* directory never write the same final output file.
C26_DistinctOutputFiles ==
    \A j, k \in Written : j # k => results[j].output_path # results[k].output_path

-----------------------------------------------------------------------------
(* audio_analyzer.py: get_energy_profile *)

\* r > -60: the sample is not silence
SILENCE_DB == -60

Sample(t, rms_db) == [time |-> t, rms_db |-> rms_db]

\* what a run of an external tool does: the executable is missing
\* (FileNotFoundError), the run exceeds the timeout (TimeoutExpired), it exits
\* with an error and no output, its output has no line to parse, or it prints
\* samples
RunKinds == {"missing", "timeout", "error_exit", "unparseable", "samples"}

\* what ffprobe does in _fallback_energy: missing, output that is no JSON, JSON
\* without format.duration, a duration that is no number (float() raises
\* ValueError), or a duration
ProbeKinds == {"missing", "bad_json", "no_duration", "bad_duration", "ok"}

\* the exception a run raises, or "none"
RunRaises(kind) ==
    CASE kind = "missing" -> "FileNotFoundError"
      [] kind = "timeout" -> "TimeoutExpired"
      [] OTHER -> "none"

\* except (json.JSONDecodeError, KeyError): return []
ProbeRaises(kind) ==
    CASE kind = "missing" -> "FileNotFoundError"
      [] kind = "bad_duration" -> "ValueError"
      [] OTHER -> "none"

IsValid(e) == e.rms_db > SILENCE_DB

SumOf(f, S) == SumSeq([k \in 1..Len(f) |-> IF k \in S THEN f[k] ELSE 0])

\* the integer part of the square root of v, known to lie in lo..hi
RECURSIVE SqrtIn(_, _, _)
SqrtIn(v, lo, hi) ==
    IF lo >= hi THEN lo
    ELSE LET mid == (lo + hi + 1) \div 2
         IN  IF mid * mid <= v THEN SqrtIn(v, mid, hi) ELSE SqrtIn(v, lo, mid - 1)

ISqrt(v) == SqrtIn(v, 0, 46340)

\* std_rms in thousandths of a dB: max(sqrt(mean of squared deviations), 0.1)
StdRms(data) ==
    LET valid == {k \in 1..Len(data) : IsValid(data[k])}
        n == Cardinality(valid)
        rms == [k \in 1..Len(data) |-> data[k].rms_db]
        total == SumOf(rms, valid)
        squares == SumOf([k \in 1..Len(data) |-> (n * rms[k] - total) * (n * rms[k] - total)],
                         valid)
    IN  Max2(ISqrt((squares * 1000000) \div (n * n * n)), 100)

\* mutant: a segment without a non-silent sample gets the score of the mean
EmptyScore_Mean == 3 * 100

\* if not seg_rms: scores.append(0.0)
EmptyScore == 0

\* the score of one segment, in hundredths: 0 without a non-silent sample in
\* [start, end]; else round(max(0, min(10, (raw_score + 1) * 3)), 2) with
\* raw_score = 0.4 * z_avg + 0.6 * z_peak (std_rms taken to the thousandth)
SegmentScore(data, seg) ==
    LET valid == {k \in 1..Len(data) : IsValid(data[k])}
        n == Cardinality(valid)
        inside == {k \in valid : seg.start <= data[k].time /\ data[k].time <= seg.end}
        m == Cardinality(inside)
        rms == [k \in 1..Len(data) |-> data[k].rms_db]
        peak == CHOOSE r \in {rms[k] : k \in inside} : \A k \in inside : rms[k] <= r
        \* (0.4 * avg_rms + 0.6 * peak_rms - mean_rms) * 10 * m * n
        num == 4 * n * SumOf(rms, inside) + 6 * m * n * peak - 10 * m * SumOf(rms, valid)
        den == m * n * StdRms(data)
        scaled == 30000 * num + 300 * den
    IN  IF inside = {} THEN EmptyScore
        ELSE IF scaled <= 0 THEN 0
        ELSE Min2(1000, RoundHalfEven(scaled, den))

\* compute_energy_scores
compute_energy_scores(data, segs) ==
    IF data = <<>> \/ \A k \in 1..Len(data) : ~IsValid(data[k])
    THEN [k \in 1..Len(segs) |-> 0]
    ELSE [k \in 1..Len(segs) |-> SegmentScore(data, segs[k])]

\* peak_times: the times of the top tenth of the samples by rms_db (one at
\* least), the sort being stable
PeakTimes(data) ==
    LET rank(i) == Cardinality({j \in 1..Len(data) :
                       \/ data[j].rms_db > data[i].rms_db
                       \/ (data[j].rms_db = data[i].rms_db /\ j < i)})
    IN  [k \in 1..(IF data = <<>> THEN 0 ELSE Max2(1, Len(data) \div 10)) |->
            data[CHOOSE i \in 1..Len(data) : rank(i) = k - 1].time]

EnergyRaise(name) ==
    /\ en_error' = name
    /\ epc' = "raised"
    /\ UNCHANGED <<en_env, en_segments, en_data, en_scores, en_peaks>>

\* extract_audio_energy: the astats run and the parse of its output (15-60)
ExtractEnergy ==
    /\ epc = "extract"
    /\ IF RunRaises(en_env.astats.kind) # "none"
       THEN EnergyRaise(RunRaises(en_env.astats.kind))
       ELSE /\ en_data' = en_env.astats.samples
            /\ epc' = IF en_env.astats.samples = <<>> THEN "probe" ELSE "score"
            /\ UNCHANGED <<en_env, en_segments, en_scores, en_peaks, en_error>>
    /\ UNCHANGED notEnergy

\* _fallback_energy: ffprobe and the duration (69-77)
FallbackProbe ==
    /\ epc = "probe"
    /\ IF ProbeRaises(en_env.probe) # "none"
       THEN EnergyRaise(ProbeRaises(en_env.probe))
       ELSE /\ epc' = IF en_env.probe = "ok" THEN "ebur128" ELSE "score"
            /\ UNCHANGED <<en_env, en_segments, en_data, en_scores, en_peaks, en_error>>
    /\ UNCHANGED notEnergy

\* _fallback_energy: the ebur128 run and the parse of its output (79-98)
FallbackRun ==
    /\ epc = "ebur128"
    /\ IF RunRaises(en_env.ebur128.kind) # "none"
       THEN EnergyRaise(RunRaises(en_env.ebur128.kind))
       ELSE /\ en_data' = en_env.ebur128.samples
            /\ epc' = "score"
            /\ UNCHANGED <<en_env, en_segments, en_scores, en_peaks, en_error>>
    /\ UNCHANGED notEnergy

\* get_energy_profile: the scores, the peak times and the return (179-196)
ScoreSegments ==
    /\ epc = "score"
    /\ en_scores' = compute_energy_scores(en_data, en_segments)
    /\ en_peaks' = PeakTimes(en_data)
    /\ epc' = "returned"
    /\ UNCHANGED <<en_env, en_segments, en_data, en_error>>
    /\ UNCHANGED notEnergy

Segment(s, e) == [start |-> s, end |-> e]

\* the samples a run can print: none below the silence floor, some, all
SampleLists ==
    { << Sample(50, -20), Sample(150, -70), Sample(250, -30), Sample(350, -12) >>,
      << Sample(50, -70), Sample(150, -91), Sample(250, -60) >>,
      << Sample(100, -25), Sample(100, -25) >>,
      << Sample(0, -40), Sample(100, -35), Sample(200, -20), Sample(300, -61) >> }

SegmentLists ==
    { <<>>,
      << Segment(0, 100) >>,
      << Segment(0, 100), Segment(100, 200), Segment(200, 400) >>,
      << Segment(120, 180), Segment(400, 500), Segment(250, 250) >> }

RunsOf(kinds) ==
    { [kind |-> k, samples |-> <<>>] : k \in kinds \ {"samples"} }
      \cup { [kind |-> "samples", samples |-> d] : d \in IF "samples" \in kinds
                                                         THEN SampleLists ELSE {} }

EnergyInit ==
    /\ en_env \in [astats : RunsOf(RunKinds), probe : ProbeKinds, ebur128 : RunsOf(RunKinds)]
    \* the fallback and its runs matter only when the first run gave no sample
    /\ en_env.astats.kind \in {"missing", "timeout", "samples"} =>
          en_env.probe = "ok" /\ en_env.ebur128.kind = "unparseable"
    /\ en_env.probe # "ok" => en_env.ebur128.kind = "unparseable"
    /\ en_env.ebur128.kind = "samples" =>
          en_env.ebur128.samples \in { d \in SampleLists : Len(d) # 2 }
    /\ en_segments \in SegmentLists
    /\ en_data = <<>> /\ en_scores = <<>> /\ en_peaks = <<>> /\ en_error = "none"
    /\ epc = "extract"
    /\ SuggestIdle /\ ClipIdle /\ BatchIdle /\ CaptionIdle /\ CropIdle
    /\ TranscribeIdle /\ MainIdle

EnergyNext == ExtractEnergy \/ FallbackProbe \/ FallbackRun \/ ScoreSegments

SpecEnergy == EnergyInit /\ [][EnergyNext]_vars

\* a segment with no non-silent sample inside [start, end]
NoValidSample(seg) ==
    \A k \in 1..Len(en_data) :
        ~(en_data[k].rms_db > -60 /\ seg.start <= en_data[k].time /\ en_data[k].time <= seg.end)

\* C23: compute_energy_scores gives 0.0 to every segment that has no
\* non-silent (above -60 dB) sample inside [start, end]; with no valid sample
\* at all every score is 0.0 and nothing is raised.
C23_SilentSegmentsScoreZero ==
    /\ epc \in {"score", "returned"} => en_error = "none"
    /\ epc = "returned" =>
          /\ Len(en_scores) = Len(en_segments)
          /\ \A k \in 1..Len(en_segments) :
                NoValidSample(en_segments[k]) => en_scores[k] = 0

\* C23 witness: of three scored segments one has only a silent sample inside
\* and scores 0, another has a positive score
C23_Witness ==
    /\ epc = "returned" /\ Len(en_segments) = 3
    /\ \E k \in 1..3 :
          /\ NoValidSample(en_segments[k]) /\ en_scores[k] = 0
          /\ \E j \in 1..Len(en_data) :
                en_segments[k].start <= en_data[j].time /\ en_data[j].time <= en_segments[k].end
    /\ \E k \in 1..3 : en_scores[k] > 0
    /\ \E j \in 1..Len(en_data) : en_data[j].rms_db <= -60

\* the extraction failed entirely: neither run gave a sample
ExtractionFailed ==
    /\ en_env.astats.kind # "samples"
    /\ \/ en_env.astats.kind \in {"missing", "timeout"}
       \/ en_env.probe # "ok"
       \/ en_env.ebur128.kind # "samples"

\* C24: if audio extraction fails entirely (tool missing, timing out, exiting
\* with an error, unparseable output), the energy analysis returns an empty
\* sample list and all-zero scores and never raises.
C24_FailedExtractionGivesZeros ==
    /\ epc \in {"extract", "probe", "ebur128"} => en_error = "none"
    /\ (ExtractionFailed /\ epc \in {"returned", "raised"}) =>
          /\ epc = "returned"
          /\ en_data = <<>>
          /\ Len(en_scores) = Len(en_segments)
          /\ \A k \in 1..Len(en_scores) : en_scores[k] = 0

-----------------------------------------------------------------------------
(* transcription.py: transcribe_file; speaker_detection.py *)

\* what the diarization steps do: pyannote is not installed, HF_TOKEN is not
\* set, the model load fails on the credential, the model load fails
\* otherwise, the audio extraction fails, the pipeline fails, or it returns
\* speaker segments (possibly none)
DiarizationKinds ==
    {"no_pyannote", "no_token", "auth_failed", "load_failed", "extract_failed",
     "pipeline_failed", "speakers"}

\* the exception of each kind: extract_audio_wav raises RuntimeError,
\* run_diarization raises ImportError, PermissionError or what the model raised
ExceptionOf(kind) ==
    CASE kind = "no_pyannote" -> "ImportError"
      [] kind \in {"no_token", "auth_failed"} -> "PermissionError"
      [] kind \in {"load_failed", "extract_failed", "pipeline_failed"} -> "Exception"
      [] OTHER -> "none"

\* diarization_warning in each except clause (182-193)
WarningOf(exc) ==
    CASE exc = "ImportError" -> "Speaker detection unavailable"
      [] exc = "PermissionError" -> "HF_TOKEN"
      [] OTHER -> "Speaker detection failed"

\* mutant: a generic failure of the diarization is raised to the caller
AfterDiarizationError_Fatal(exc) == IF exc = "Exception" THEN "raised" ELSE "result"

\* the three except clauses end the try statement: on to the result
AfterDiarizationError(exc) == "result"

\* the overlap of a transcript segment with a speaker segment
SpeakerOverlap(seg, sp) == Max2(0, Min2(seg.end, sp.end) - Max2(seg.start, sp.start))

\* the total overlap of a segment with the segments of one speaker
TotalOverlap(seg, speakers, name) ==
    SumSeq([k \in 1..Len(speakers) |->
              IF speakers[k].speaker = name THEN SpeakerOverlap(seg, speakers[k]) ELSE 0])

\* assign_speakers_to_segments: the speaker with the most overlap, the first
\* met among equals; None without overlap
SegmentSpeaker(seg, speakers) ==
    LET met == {k \in 1..Len(speakers) : SpeakerOverlap(seg, speakers[k]) > 0}
        best(k) == \A j \in met :
                      \/ TotalOverlap(seg, speakers, speakers[j].speaker)
                            < TotalOverlap(seg, speakers, speakers[k].speaker)
                      \/ /\ TotalOverlap(seg, speakers, speakers[j].speaker)
                               = TotalOverlap(seg, speakers, speakers[k].speaker)
                         /\ \E i \in met : i <= j /\ speakers[i].speaker = speakers[k].speaker
    IN  IF met = {} THEN "null"
        ELSE speakers[CHOOSE k \in met : best(k)].speaker

\* assign_speakers_to_words: the first speaker segment that holds the
\* midpoint of the word; None without one
WordSpeaker(w, speakers) ==
    LET holds == {k \in 1..Len(speakers) :
                    /\ 2 * speakers[k].start <= w.start + w.end
                    /\ w.start + w.end <= 2 * speakers[k].end}
    IN  IF holds = {} THEN "null"
        ELSE speakers[CHOOSE k \in holds : \A j \in holds : k <= j].speaker

\* Step 1: the file check and the Whisper transcription (39-123)
Whisper ==
    /\ tpc = "whisper"
    /\ IF ~tr_env.file_exists
       THEN /\ tpc' = "raised"
            /\ UNCHANGED <<tr_segments, tr_words>>
       ELSE /\ tr_segments' = tr_env.segments
            /\ tr_words' = tr_env.words
            /\ tpc' = IF tr_enabled THEN "extract" ELSE "result"
    /\ tr_warning' = IF tr_env.file_exists /\ ~tr_enabled
                     THEN "Speaker detection disabled" ELSE tr_warning
    /\ UNCHANGED <<tr_env, tr_enabled, tr_speakers>>
    /\ UNCHANGED notTranscribe

\* extract_audio_wav (146-147)
ExtractWav ==
    /\ tpc = "extract"
    /\ IF tr_env.kind = "extract_failed"
       THEN /\ tr_warning' = WarningOf(ExceptionOf(tr_env.kind))
            /\ tpc' = AfterDiarizationError(ExceptionOf(tr_env.kind))
       ELSE /\ tr_warning' = tr_warning
            /\ tpc' = "diarize"
    /\ UNCHANGED <<tr_env, tr_enabled, tr_segments, tr_words, tr_speakers>>
    /\ UNCHANGED notTranscribe

\* run_diarization (152-158; speaker_detection.py 55-124)
RunDiarization ==
    /\ tpc = "diarize"
    /\ IF ExceptionOf(tr_env.kind) # "none"
       THEN /\ tr_warning' = WarningOf(ExceptionOf(tr_env.kind))
            /\ tpc' = AfterDiarizationError(ExceptionOf(tr_env.kind))
            /\ tr_speakers' = tr_speakers
       ELSE /\ tr_warning' = tr_warning
            /\ tr_speakers' = tr_env.speakers
            /\ tpc' = IF tr_env.speakers # <<>> THEN "assign" ELSE "result"
    /\ UNCHANGED <<tr_env, tr_enabled, tr_segments, tr_words>>
    /\ UNCHANGED notTranscribe

\* the speaker labels are merged into the segments and the words (160-167)
AssignSpeakers ==
    /\ tpc = "assign"
    /\ tr_segments' = [k \in 1..Len(tr_segments) |->
                         [tr_segments[k] EXCEPT !.speaker = SegmentSpeaker(tr_segments[k], tr_speakers)]]
    /\ tr_words' = [k \in 1..Len(tr_words) |->
                      [tr_words[k] EXCEPT !.speaker = WordSpeaker(tr_words[k], tr_speakers)]]
    /\ tpc' = "result"
    /\ UNCHANGED <<tr_env, tr_enabled, tr_speakers, tr_warning>>
    /\ UNCHANGED notTranscribe

\* result_data and the return (197-211)
ReturnResult ==
    /\ tpc = "result"
    /\ tpc' = "returned"
    /\ UNCHANGED <<tr_env, tr_enabled, tr_segments, tr_words, tr_speakers, tr_warning>>
    /\ UNCHANGED notTranscribe

Spoken(s, e) == [start |-> s, end |-> e, speaker |-> "null"]

Turn(name, s, e) == [speaker |-> name, start |-> s, end |-> e]

\* what Whisper returns: segments and words, every speaker None
Transcripts ==
    { [segments |-> <<>>, words |-> <<>>],
      [segments |-> << Spoken(0, 400), Spoken(400, 900) >>,
       words |-> << Spoken(0, 100), Spoken(150, 380), Spoken(420, 600), Spoken(950, 990) >>] }

SpeakerTurns ==
    { <<>>,
      << Turn("SPEAKER_00", 0, 450), Turn("SPEAKER_01", 450, 900) >>,
      << Turn("SPEAKER_01", 0, 200), Turn("SPEAKER_00", 200, 400), Turn("SPEAKER_00", 500, 700) >> }

TranscribeInit ==
    /\ \E t \in Transcripts, kind \in DiarizationKinds, f \in BOOLEAN :
          /\ tr_env \in { [file_exists |-> f, kind |-> kind, segments |-> t.segments,
                           words |-> t.words, speakers |-> sp]
                          : sp \in IF kind = "speakers" THEN SpeakerTurns ELSE {<<>>} }
    /\ tr_enabled \in BOOLEAN
    /\ tr_segments = <<>> /\ tr_words = <<>> /\ tr_speakers = <<>>
    /\ tr_warning = "none"
    /\ tpc = "whisper"
    /\ SuggestIdle /\ ClipIdle /\ BatchIdle /\ CaptionIdle /\ CropIdle
    /\ EnergyIdle /\ MainIdle

TranscribeNext == Whisper \/ ExtractWav \/ RunDiarization \/ AssignSpeakers \/ ReturnResult

SpecTranscribe == TranscribeInit /\ [][TranscribeNext]_vars

\* the diarization was asked for and failed
DiarizationFailed == tr_enabled /\ tr_env.file_exists /\ tr_env.kind # "speakers"

\* C25: each of the three diarization failure modes (missing dependency,
\* missing or invalid credential, generic failure) is non-fatal to
\* transcribe_file: the result is returned, every word and every segment has
\* speaker null, and a warning string is in the result.
C25_DiarizationNonFatal ==
    /\ tpc = "raised" => ~tr_env.file_exists
    /\ (DiarizationFailed /\ tpc \in {"result", "returned"}) =>
          /\ tr_segments = tr_env.segments
          /\ tr_words = tr_env.words
          /\ \A k \in 1..Len(tr_segments) : tr_segments[k].speaker = "null"
          /\ \A k \in 1..Len(tr_words) : tr_words[k].speaker = "null"
          /\ tr_warning \in {"Speaker detection unavailable", "HF_TOKEN",
                             "Speaker detection failed"}
          /\ tr_warning = "Speaker detection unavailable" <=> tr_env.kind = "no_pyannote"
          /\ tr_warning = "HF_TOKEN" <=> tr_env.kind \in {"no_token", "auth_failed"}

\* C25 witness: the pipeline failed on a transcript of two segments and the
\* result was returned with the warning of a generic failure
C25_Witness ==
    /\ tpc = "returned" /\ tr_enabled
    /\ tr_env.kind = "pipeline_failed"
    /\ Len(tr_segments) = 2 /\ Len(tr_words) = 4
    /\ tr_warning = "Speaker detection failed"

-----------------------------------------------------------------------------
(* main.py: the backend entry point *)

\* the keys of TASK_HANDLERS (196-205)
TASK_HANDLERS ==
    {"ping", "transcribe", "parse_transcript", "create_clip", "batch_clips",
     "analyze_energy", "detect_encoder", "presets"}

\* the line on stdin: empty, not JSON, JSON that is no object, or an object
\* with or without a task_id and with a known, unknown or absent task_type
RequestLine(line, id, type) == [line |-> line, task_id |-> id, task_type |-> type]

\* request.get("task_id", "unknown")
TaskIdOf(request) == IF request.task_id = "absent" THEN "unknown" ELSE request.task_id

\* the task_id of the except clause: json.loads(raw).get(...) inside a try
\* statement of its own (230-233)
RecoveredTaskId(request) == IF request.line = "object" THEN TaskIdOf(request) ELSE "unknown"

\* emit_result: json.dumps and then one print to stdout (24-34)
emit_result(out, task_id, status) == Append(out, [task_id |-> task_id, status |-> status])

\* mutant: the except clause catches every exception, SystemExit included
Caught_All(exc) == TRUE

\* except Exception (228): SystemExit of sys.exit is no Exception
Caught(exc) == exc # "SystemExit"

\* emit_result(task_id, "error", ...) followed by sys.exit(1) inside the try
\* statement (213-214, 223-224)
EmitAndExit(task_id) ==
    /\ stdout' = emit_result(stdout, task_id, "error")
    /\ IF Caught("SystemExit")
       THEN mpc' = "except" /\ exit_code' = exit_code
       ELSE mpc' = "exited" /\ exit_code' = "1"

\* raw = sys.stdin.readline().strip() and the check of the empty line (210-214)
ReadLine ==
    /\ mpc = "read"
    /\ IF raw.line = "empty"
       THEN EmitAndExit("unknown")
       ELSE mpc' = "parse" /\ UNCHANGED <<stdout, exit_code>>
    /\ UNCHANGED <<raw, handler_env, stderr>>
    /\ UNCHANGED notMain

\* json.loads(raw) and the three request.get (216-219): a line that is no
\* JSON raises JSONDecodeError, JSON that is no object raises AttributeError
ParseRequest ==
    /\ mpc = "parse"
    /\ mpc' = IF raw.line = "object" THEN "dispatch" ELSE "except"
    /\ UNCHANGED <<raw, handler_env, stdout, stderr, exit_code>>
    /\ UNCHANGED notMain

\* handler = TASK_HANDLERS.get(task_type) (221-224)
Dispatch ==
    /\ mpc = "dispatch"
    /\ IF raw.task_type \notin TASK_HANDLERS
       THEN EmitAndExit(TaskIdOf(raw))
       ELSE mpc' = "handler" /\ UNCHANGED <<stdout, exit_code>>
    /\ UNCHANGED <<raw, handler_env, stderr>>
    /\ UNCHANGED notMain

\* the end of a handler after `progress` events on stderr: it raised, or it
\* wrote its result and returned to main, which returns
Handled(result, emitted) ==
    /\ stderr' = stderr + emitted
    /\ IF result = "raise"
       THEN mpc' = "except" /\ UNCHANGED <<stdout, exit_code>>
       ELSE /\ stdout' = emit_result(stdout, TaskIdOf(raw), result)
            /\ mpc' = "exited"
            /\ exit_code' = "0"
    /\ UNCHANGED <<raw, handler_env>>
    /\ UNCHANGED notMain

\* what each handler meets: "raise" is an exception of the service or of a
\* params[...] lookup, "dump_fails" a result json.dumps cannot serialise
HandlerOutcomes(task_type) ==
    CASE task_type = "ping" -> {"ok"}
      [] task_type = "transcribe" -> {"ok", "raise", "dump_fails"}
      [] task_type = "parse_transcript" -> {"no_text", "raise", "parse_error", "ok"}
      [] task_type = "create_clip" -> {"ok", "raise", "dump_fails"}
      [] task_type = "batch_clips" -> {"ok", "raise", "dump_fails"}
      [] task_type = "analyze_energy" -> {"no_path", "raise", "ok", "dump_fails"}
      [] task_type = "detect_encoder" -> {"ok", "raise"}
      [] task_type = "presets" -> {"list", "get", "get_missing", "save", "delete",
                                   "unknown_action", "raise"}
      [] OTHER -> {"none"}

\* a handler of one service call and one emit_result: success, or the
\* exception of the call or of json.dumps
CallThenEmit(env) == IF env \in {"raise", "dump_fails"} THEN "raise" ELSE "success"

handle_ping ==
    /\ mpc = "handler" /\ raw.task_type = "ping"
    /\ Handled("success", 0)

handle_transcribe ==
    /\ mpc = "handler" /\ raw.task_type = "transcribe"
    /\ Handled(CallThenEmit(handler_env), 1)

handle_create_clip ==
    /\ mpc = "handler" /\ raw.task_type = "create_clip"
    /\ Handled(CallThenEmit(handler_env), 1)

handle_batch_clips ==
    /\ mpc = "handler" /\ raw.task_type = "batch_clips"
    /\ Handled(CallThenEmit(handler_env), IF handler_env = "raise" THEN 0 ELSE 2)

handle_parse_transcript ==
    /\ mpc = "handler" /\ raw.task_type = "parse_transcript"
    /\ CASE handler_env = "no_text" -> Handled("error", 0)
         [] handler_env = "raise" -> Handled("raise", 1)
         [] handler_env = "parse_error" -> Handled("error", 1)
         [] OTHER -> Handled("success", 2)

handle_analyze_energy ==
    /\ mpc = "handler" /\ raw.task_type = "analyze_energy"
    /\ IF handler_env = "no_path"
       THEN Handled("error", 0)
       ELSE Handled(CallThenEmit(handler_env), 1)

handle_detect_encoder ==
    /\ mpc = "handler" /\ raw.task_type = "detect_encoder"
    /\ Handled(CallThenEmit(handler_env), 0)

handle_presets ==
    /\ mpc = "handler" /\ raw.task_type = "presets"
    /\ CASE handler_env \in {"list", "get", "save", "delete"} -> Handled("success", 0)
         [] handler_env \in {"get_missing", "unknown_action"} -> Handled("error", 0)
         [] OTHER -> Handled("raise", 0)

\* the except clause of main: one error result and sys.exit(1), outside the
\* try statement (228-235)
Except ==
    /\ mpc = "except"
    /\ stdout' = emit_result(stdout, RecoveredTaskId(raw), "error")
    /\ exit_code' = "1"
    /\ mpc' = "exited"
    /\ UNCHANGED <<raw, handler_env, stderr>>
    /\ UNCHANGED notMain

RequestLines ==
    {RequestLine(l, "absent", "") : l \in {"empty", "invalid_json", "not_object"}}
    \cup {RequestLine("object", id, type) :
            id \in {"absent", "task-1", "task-2"}, type \in TASK_HANDLERS \cup {"", "bogus"}}

MainInit ==
    /\ raw \in RequestLines
    /\ handler_env \in HandlerOutcomes(raw.task_type)
    /\ stdout = <<>>
    /\ stderr = 0
    /\ exit_code = "none"
    /\ mpc = "read"
    /\ SuggestIdle /\ ClipIdle /\ BatchIdle /\ CaptionIdle /\ CropIdle
    /\ EnergyIdle /\ TranscribeIdle

MainNext ==
    \/ ReadLine \/ ParseRequest \/ Dispatch
    \/ handle_ping \/ handle_transcribe \/ handle_parse_transcript
    \/ handle_create_clip \/ handle_batch_clips \/ handle_analyze_energy
    \/ handle_detect_encoder \/ handle_presets
    \/ Except

SpecMain == MainInit /\ [][MainNext]_vars

\* C27: for every request line read by the entry point exactly one result
\* message is written to stdout, with status success or error, whatever the
\* task type, the handler and the exception: never more than one message, and
\* exactly one when the process ends, with the task_id of the request when
\* the line holds one.
C27_ExactlyOneResult ==
    /\ Len(stdout) <= 1
    /\ \A k \in 1..Len(stdout) :
          /\ stdout[k].status \in {"success", "error"}
          /\ stdout[k].task_id = RecoveredTaskId(raw)
    /\ mpc = "exited" =>
          /\ Len(stdout) = 1
          /\ exit_code \in {"0", "1"}
          /\ exit_code = "1" => stdout[1].status = "error"
          /\ stdout[1].status = "success" => exit_code = "0"
    /\ mpc # "exited" => (mpc = "except" \/ Len(stdout) = 0)

\* C27 witness: a known handler raised, and the process ended with the one
\* error message that carries the task_id of the request
C27_Witness ==
    /\ mpc = "exited" /\ exit_code = "1"
    /\ raw.task_type = "transcribe" /\ handler_env = "raise"
    /\ stdout = << [task_id |-> "task-1", status |-> "error"] >>
    /\ stderr = 1

=============================================================================
